---------------------------- MODULE Spec2Model ----------------------------
(***************************************************************************)
(* Model of the photometric bundle adjuster of mdso:                       *)
(*   - StepController          (src/source/optimize/StepController.cpp)    *)
(*   - EnergyFunction          (src/unnamed/part_002)                      *)
(*   - BundleAdjusterCeres     (src/source/system/BundleAdjusterCeres.cpp) *)
(*                                                                         *)
(* Doubles are modelled as exact extended rationals <<n, d>>: d > 0 is the *)
(* rational n/d in lowest terms, d = 0 is +inf (n = 1), -inf (n = -1) or   *)
(* NaN (n = 0).  Rounding is not modelled.                                 *)
(***************************************************************************)
EXTENDS Integers, Sequences, FiniteSets, TLC

(***************************************************************************)
(* Bounds of the model.                                                    *)
(***************************************************************************)
MaxSteps == 3        \* calls of StepController::newStep in one run
MaxEnergy == 3       \* energies handed to newStep are drawn from 0..MaxEnergy
MaxIterations == 2   \* largest maxIterations handed to optimize()
MaxPoints == 1       \* optimized points in a window
MaxKeyFrames == 2    \* keyframes handed to a constructor
MaxCams == 1         \* cameras of the bundle handed to a constructor
MaxCalls == 2        \* calls of PixelSelector::select in a row
MaxPattern == 1      \* pixels of the residual pattern
MaxDelta == 2        \* point deltas are drawn from -MaxDelta..MaxDelta

(***************************************************************************)
(* Extended rational arithmetic (IEEE double, without rounding).           *)
(***************************************************************************)
Abs(x) == IF x < 0 THEN -x ELSE x

Sign(x) == IF x > 0 THEN 1 ELSE IF x < 0 THEN -1 ELSE 0

RECURSIVE GCD(_, _)
GCD(a, b) == IF b = 0 THEN a ELSE GCD(b, a % b)

\* the double n/d for integers n, d (d = 0 gives +-inf or NaN)
Rat(n, d) ==
  IF d = 0 THEN <<Sign(n), 0>>
  ELSE LET g == GCD(Abs(n), Abs(d))
           s == Sign(d)
       IN  <<(s * n) \div g, (s * d) \div g>>

IsNaN(x) == x[2] = 0 /\ x[1] = 0
IsInf(x) == x[2] = 0 /\ x[1] # 0
IsFinite(x) == x[2] > 0

RInt(n) == <<n, 1>>
NaN == <<0, 0>>
PosInf == <<1, 0>>
NegInf == <<-1, 0>>

RNeg(x) == <<-x[1], x[2]>>

\* x * y
RMul(x, y) ==
  IF IsNaN(x) \/ IsNaN(y) THEN NaN
  ELSE IF x[2] = 0 \/ y[2] = 0
       THEN <<Sign(x[1]) * Sign(y[1]), 0>>       \* inf * 0 = NaN
  ELSE LET g1 == GCD(Abs(x[1]), y[2])
           g2 == GCD(Abs(y[1]), x[2])
       IN  Rat((x[1] \div g1) * (y[1] \div g2), (x[2] \div g2) * (y[2] \div g1))

\* x + y
RAdd(x, y) ==
  IF IsNaN(x) \/ IsNaN(y) THEN NaN
  ELSE IF x[2] = 0 /\ y[2] = 0 THEN (IF x[1] = y[1] THEN x ELSE NaN)
  ELSE IF x[2] = 0 THEN x
  ELSE IF y[2] = 0 THEN y
  ELSE Rat(x[1] * y[2] + y[1] * x[2], x[2] * y[2])

RSub(x, y) == RAdd(x, RNeg(y))

\* x / y for finite x, y
RDiv(x, y) ==
  IF y[1] = 0 THEN <<Sign(x[1]), 0>>
  ELSE Rat(x[1] * y[2], x[2] * y[1])

\* a/b < c/d for a, c >= 0 and b, d > 0, by comparing the integer parts and
\* then the reciprocals of the fractional parts (no product is formed, so
\* the comparison stays within the integers' range)
RECURSIVE PosLt(_, _, _, _)
PosLt(a, b, c, d) ==
  IF a \div b # c \div d THEN a \div b < c \div d
  ELSE IF c % d = 0 THEN FALSE
  ELSE IF a % b = 0 THEN TRUE
  ELSE PosLt(d, c % d, b, a % b)

\* x < y as the double comparison: false when either side is NaN
RLt(x, y) ==
  IF IsNaN(x) \/ IsNaN(y) THEN FALSE
  ELSE IF x[2] = 0 /\ y[2] = 0 THEN x[1] < y[1]
  ELSE IF x[2] = 0 THEN x[1] < 0
  ELSE IF y[2] = 0 THEN y[1] > 0
  ELSE IF x[1] < 0 /\ y[1] >= 0 THEN TRUE
  ELSE IF x[1] >= 0 /\ y[1] < 0 THEN FALSE
  ELSE IF x[1] >= 0 THEN PosLt(x[1], x[2], y[1], y[2])
  ELSE PosLt(-y[1], y[2], -x[1], x[2])

RGt(x, y) == RLt(y, x)
RLe(x, y) == ~IsNaN(x) /\ ~IsNaN(y) /\ ~RLt(y, x)

\* std::abs
RAbs(x) == <<Abs(x[1]), x[2]>>

\* std::max(a, b) == (a < b) ? b : a
StdMax(a, b) == IF RLt(a, b) THEN b ELSE a

RECURSIVE RPow(_, _)
RPow(x, k) == IF k = 0 THEN RInt(1) ELSE RMul(x, RPow(x, k - 1))

(***************************************************************************)
(* State.                                                                  *)
(***************************************************************************)
VARIABLES
  \* ---- StepController ----
  scSettings,        \* Settings::Optimization::StepControl
  mLambda,           \* StepController::mLambda
  failMultiplier,    \* StepController::failMultiplier
  scCalls,           \* number of newStep calls made so far
  scLast             \* the last newStep call: its locals and its result

varsSC == <<scSettings, mLambda, failMultiplier, scCalls, scLast>>

VARIABLES
  \* ---- external KeyFrame objects ----
  keyFrames,         \* [pose, aff, logDepth]: thisToWorld, lightWorldToThis
                     \* and the optimized points' logDepth
  \* ---- EnergyFunction ----
  efSettings,        \* EnergyFunctionSettings
  scene,             \* the images: what the interpolators return
  residuals,         \* EnergyFunction::residuals
  parameters,        \* EnergyFunction::parameters
  pc,                \* position inside optimize()
  maxIterations,     \* the argument of optimize()
  it,                \* loop counter
  lambda,            \* T lambda
  curValues,         \* Values curValues
  newValues,         \* Values newValues of the running iteration
  savedState,        \* Parameters::State savedState
  parametersUpdated, \* bool parametersUpdated
  hist               \* history of the call, kept for the properties

varsEF == <<keyFrames, efSettings, scene, residuals, parameters, pc,
            maxIterations, it, lambda, curValues, newValues, savedState,
            parametersUpdated, hist>>

VARIABLES
  \* ---- BundleAdjusterCeres ----
  ba                 \* the adjuster: its position, its settings, the
                     \* ceres::Problem it built and the solver's state

VARIABLES
  \* ---- DeltaParameterVector ----
  dpv                \* the vector: its frame and point parts, and the last
                     \* constraintDepths call made on it

VARIABLES
  \* ---- the objects optimize() keeps between its iterations ----
  caches,            \* [hostToTarget, lightHostToTarget, motionDerivatives,
                     \* curDerivatives, hessian, gradient] and the tables of
                     \* the trial point, with a record of the reads made;
                     \* empty where the tables are not followed
  \* ---- EnergyFunction: inspection ----
  pre,               \* EnergyFunction::values and ::derivatives, and what the
                     \* last inspection accessor returned
  ev                 \* a Values object whose totalEnergy() is taken

VARIABLES
  \* ---- Reprojector ----
  rp,                \* the reprojector: its members and the last reproject()
  \* ---- PixelSelector ----
  ps                 \* the selector: lastBlockSize, lastPointsFound and the
                     \* position inside select()

varsInspect == <<pre, ev>>
varsSystem == <<rp, ps>>

vars == <<varsSC, varsEF, ba, dpv, caches, varsInspect, varsSystem>>

(***************************************************************************)
(* StepController                                                          *)
(***************************************************************************)
\* the step-control settings the model is run with
StepControlSettings ==
  [initialLambda           : {RInt(0), RInt(1)},
   initialFailMultiplier   : {RInt(2), RInt(3)},
   failMultiplierMultiplier: {RInt(2)},
   minLambdaMultiplier     : {Rat(1, 3)},
   acceptedQuality         : {RInt(0), Rat(1, 4)}]

NoCall == [called |-> FALSE]

\* StepController::StepController
StepControllerInit ==
  /\ scSettings \in StepControlSettings
  /\ mLambda = scSettings.initialLambda
  /\ failMultiplier = scSettings.initialFailMultiplier
  /\ scCalls = 0
  /\ scLast = NoCall

\* lines 13-21 with a flip of predictedDiff alone
FlippedDiffsMut(oldEnergy, newEnergy, predictedEnergy) ==
  LET predictedDiff == oldEnergy - predictedEnergy
      actualDiff == oldEnergy - newEnergy
  IN  IF predictedDiff < 0
      THEN [predictedDiff |-> -predictedDiff, actualDiff |-> actualDiff]
      ELSE [predictedDiff |-> predictedDiff, actualDiff |-> actualDiff]

\* lines 13-21 with a flip of actualDiff alone
FlippedDiffsActualMut(oldEnergy, newEnergy, predictedEnergy) ==
  LET predictedDiff == oldEnergy - predictedEnergy
      actualDiff == oldEnergy - newEnergy
  IN  IF predictedDiff < 0
      THEN [predictedDiff |-> predictedDiff, actualDiff |-> -actualDiff]
      ELSE [predictedDiff |-> predictedDiff, actualDiff |-> actualDiff]

\* predictedDiff and actualDiff after the sign flip of lines 13-21
FlippedDiffs(oldEnergy, newEnergy, predictedEnergy) ==
  LET predictedDiff == oldEnergy - predictedEnergy
      actualDiff == oldEnergy - newEnergy
  IN  IF predictedDiff < 0
      THEN [predictedDiff |-> -predictedDiff, actualDiff |-> -actualDiff]
      ELSE [predictedDiff |-> predictedDiff, actualDiff |-> actualDiff]

\* double predictionQuality = actualDiff / predictedDiff
PredictionQuality(oldEnergy, newEnergy, predictedEnergy) ==
  LET f == FlippedDiffs(oldEnergy, newEnergy, predictedEnergy)
  IN  RDiv(RInt(f.actualDiff), RInt(f.predictedDiff))

\* the factor of the successful branch: max(minLambdaMultiplier, 1 - q2m1^3)
SuccessFactorMut(q) ==
  LET q2m1 == RSub(RMul(RInt(2), q), RInt(1))
  IN  StdMax(scSettings.minLambdaMultiplier,
             RSub(RInt(1), RMul(q2m1, q2m1)))

SuccessFactor(q) ==
  LET q2m1 == RSub(RMul(RInt(2), q), RInt(1))
  IN  StdMax(scSettings.minLambdaMultiplier,
             RSub(RInt(1), RMul(RMul(q2m1, q2m1), q2m1)))

\* the failing branch of newStep with a failMultiplier that does not grow
FailBranchMut ==
  /\ mLambda' = RMul(mLambda, failMultiplier)
  /\ failMultiplier' = failMultiplier

\* the failing branch of newStep, lines 30-33
FailBranch ==
  /\ mLambda' = RMul(mLambda, failMultiplier)
  /\ failMultiplier' = RMul(failMultiplier, scSettings.failMultiplierMultiplier)

\* StepController::newStep(oldEnergy, newEnergy, predictedEnergy)
newStep(oldEnergy, newEnergy, predictedEnergy) ==
  LET predictionQuality == PredictionQuality(oldEnergy, newEnergy, predictedEnergy)
      isStepSuccessful == RGt(predictionQuality, scSettings.acceptedQuality)
  IN  /\ scCalls < MaxSteps
      /\ scCalls' = scCalls + 1
      /\ IF isStepSuccessful
         THEN /\ mLambda' = RMul(mLambda, SuccessFactor(predictionQuality))
              /\ failMultiplier' = scSettings.initialFailMultiplier
         ELSE FailBranch
      /\ scLast' = [called |-> TRUE,
                    oldEnergy |-> oldEnergy,
                    newEnergy |-> newEnergy,
                    predictedEnergy |-> predictedEnergy,
                    oldLambda |-> mLambda,
                    oldFailMultiplier |-> failMultiplier,
                    predictionQuality |-> predictionQuality,
                    isStepSuccessful |-> isStepSuccessful,
                    \* consecutive rejections since failMultiplier was reset,
                    \* and lambda at that reset
                    rejections |-> IF isStepSuccessful THEN 0
                                   ELSE IF scLast.called THEN scLast.rejections + 1
                                   ELSE 1,
                    lambda0 |-> IF isStepSuccessful THEN mLambda'
                                ELSE IF scLast.called THEN scLast.lambda0
                                ELSE mLambda]
      /\ UNCHANGED scSettings

NewStepCall ==
  /\ pc \in {"idle", "new"}
  /\ \E oldEnergy \in 0..MaxEnergy, newEnergy \in 0..MaxEnergy,
        predictedEnergy \in 0..MaxEnergy :
          newStep(oldEnergy, newEnergy, predictedEnergy)
  /\ UNCHANGED <<varsEF, ba, dpv, caches, varsInspect, varsSystem>>

\* the EnergyFunction is not in use
EFIdle ==
  /\ keyFrames = <<>> /\ efSettings = <<>> /\ scene = 0 /\ residuals = <<>>
  /\ parameters = <<>> /\ pc = "idle" /\ maxIterations = 0 /\ it = 0
  /\ lambda = RInt(0) /\ curValues = <<>> /\ newValues = <<>>
  /\ savedState = <<>> /\ parametersUpdated = FALSE /\ hist = <<>>

\* no DeltaParameterVector is in use
DPIdle == dpv = [calls |-> 0]

\* the objects that take no part in a run: optimize()'s tables are not
\* followed, nothing is precomputed, no accessor and no totalEnergy() has
\* been called, no Reprojector and no PixelSelector is in use
OthersIdle ==
  /\ caches = <<>>
  /\ pre = <<>> /\ ev = <<>>
  /\ rp = [pc |-> "idle"] /\ ps = [pc |-> "idle"]

\* the BundleAdjusterCeres is not in use
BAIdle == ba = [pc |-> "idle"]

InitStep == StepControllerInit /\ EFIdle /\ BAIdle /\ DPIdle /\ OthersIdle

NextStep == NewStepCall

SpecStep == InitStep /\ [][NextStep]_vars

(***************************************************************************)
(* External KeyFrame objects and the inputs of the adjusters.              *)
(*                                                                         *)
(* A pose is abstracted to <<rot, tx, ty>>: an integer rotation and a      *)
(* translation on the integer plane (composition is addition); an affine   *)
(* light transform to the pair <<a, b>>, a depth to its integer logDepth.  *)
(* keyFrames = [n, cams, camNull, pose, aff, points]:                      *)
(*   n       numKeyFrames, cams  the size of the camera bundle, camNull    *)
(*           whether the CameraBundle pointer is null,                     *)
(*   pose    [0..n-1 -> <<rot, tx, ty>>]   thisToWorld                     *)
(*   aff     [0..n-1 -> [cam -> <<a,b>>]]  lightWorldToThis                *)
(*   points  sequence of OptimizedPoint: [host, hostCam, state, logDepth,  *)
(*           mappable, onImage], the last two being the sets of            *)
(*           <<targetInd, targetCamInd>> for which the reprojected ray     *)
(*           isMappable, resp. isOnImage with the pattern border.          *)
(***************************************************************************)
Min(a, b) == IF a < b THEN a ELSE b
Max(a, b) == IF a < b THEN b ELSE a
Clamp(x, lo, hi) == Max(lo, Min(hi, x))

CamInds(cams) == 0..(cams - 1)
KFInds(n) == 0..(n - 1)

\* concatenation of f[lo], f[lo+1], ..., f[hi]
RECURSIVE ConcatRange(_, _, _)
ConcatRange(f, lo, hi) ==
  IF lo > hi THEN <<>> ELSE f[lo] \o ConcatRange(f, lo + 1, hi)

\* the indices i of a sequence, in order, whose element satisfies Test
Indices(seq) == [i \in 1..Len(seq) |-> i]

(***************************************************************************)
(* Parameters (optimize/Parameters.cpp is not part of the sources at hand; *)
(* modelled from sections 3, 4.1 and 7 of the specification).              *)
(***************************************************************************)
\* Parameters::Parameters: mirrors poses and affine parameters
ParametersCtor(kfs) ==
  [pose |-> kfs.pose, aff |-> kfs.aff, logDepth |-> <<>>, points |-> <<>>]

\* Parameters::setPoints: mirrors the log-depths, clamped to the depth bounds
setPoints(params, optimizedPoints, kfs, settings) ==
  [params EXCEPT
     !.points = optimizedPoints,
     !.logDepth = [i \in 1..Len(optimizedPoints) |->
                     Clamp(kfs.points[optimizedPoints[i]].logDepth,
                           settings.logMinDepth, settings.logMaxDepth)]]

\* Parameters::numPoints
numPoints(params) == Len(params.points)

\* squared distance of two translations
DistSq(p, q) == (p[1] - q[1]) * (p[1] - q[1]) + (p[2] - q[2]) * (p[2] - q[2])

\* SphericalPlus: a step on the sphere around center through t.  Only the
\* tangential part of d moves t, by a quarter turn around center, which
\* keeps it on the sphere.
SphericalPlus(center, t, d) ==
  LET r == <<t[1] - center[1], t[2] - center[2]>>
      perp == <<-r[2], r[1]>>
      turn == Sign(d[1] * perp[1] + d[2] * perp[2])
  IN  IF turn = 0 THEN t
      ELSE <<center[1] + turn * perp[1], center[2] + turn * perp[2]>>

Trans(pose) == <<pose[2], pose[3]>>

\* the translation of keyframe k after the step d: keyframe 1 stays on the
\* sphere around keyframe 0 when the baseline exceeds the threshold and is
\* frozen otherwise
UpdatedTrans(pose, k, d, settings) ==
  IF k = 1
  THEN IF DistSq(Trans(pose[1]), Trans(pose[0])) > settings.minFirstToSecondRadiusSq
       THEN SphericalPlus(Trans(pose[0]), Trans(pose[1]), d)
       ELSE Trans(pose[1])
  ELSE <<pose[k][2] + d[1], pose[k][3] + d[2]>>

\* Parameters::update without the bounds on affine parameters and depths
updateMut(params, delta, settings) ==
  [params EXCEPT
     !.pose = [k \in DOMAIN params.pose |->
                 IF k = 0 THEN params.pose[k]
                 ELSE LET t == UpdatedTrans(params.pose, k,
                                            <<delta.pose[k][2], delta.pose[k][3]>>,
                                            settings)
                      IN  <<params.pose[k][1] + delta.pose[k][1], t[1], t[2]>>],
     !.aff = [k \in DOMAIN params.aff |->
                IF k = 0 THEN params.aff[k]
                ELSE [c \in DOMAIN params.aff[k] |->
                        <<params.aff[k][c][1] + delta.aff[k][c][1],
                          params.aff[k][c][2] + delta.aff[k][c][2]>>]],
     !.logDepth = [i \in DOMAIN params.logDepth |->
                     params.logDepth[i] + delta.point[i]]]

\* Parameters::update: keyframe 0 is masked, keyframe 1's translation is
\* kept on its sphere, affine parameters saturate at their bounds, a depth
\* step that leaves the depth bounds is masked
update(params, delta, settings) ==
  [params EXCEPT
     !.pose = [k \in DOMAIN params.pose |->
                 IF k = 0 THEN params.pose[k]
                 ELSE LET t == UpdatedTrans(params.pose, k,
                                            <<delta.pose[k][2], delta.pose[k][3]>>,
                                            settings)
                      IN  <<params.pose[k][1] + delta.pose[k][1], t[1], t[2]>>],
     !.aff = [k \in DOMAIN params.aff |->
                IF k = 0 THEN params.aff[k]
                ELSE [c \in DOMAIN params.aff[k] |->
                        <<Clamp(params.aff[k][c][1] + delta.aff[k][c][1],
                                settings.minAffineLightA,
                                settings.maxAffineLightA),
                          Clamp(params.aff[k][c][2] + delta.aff[k][c][2],
                                settings.minAffineLightB,
                                settings.maxAffineLightB)>>]],
     !.logDepth = [i \in DOMAIN params.logDepth |->
                     LET d == params.logDepth[i] + delta.point[i]
                     IN  IF d < settings.logMinDepth \/ d > settings.logMaxDepth
                         THEN params.logDepth[i]
                         ELSE d]]

\* Parameters::saveState
saveState(params) == params

\* Parameters::recoverState
recoverState(params, state) == state

\* Parameters::apply: writes poses, affine parameters and log-depths back
apply(params, kfs) ==
  [kfs EXCEPT
     !.pose = params.pose,
     !.aff = params.aff,
     !.points = [j \in DOMAIN kfs.points |->
                   IF \E i \in DOMAIN params.points : params.points[i] = j
                   THEN [kfs.points[j] EXCEPT !.logDepth =
                           params.logDepth[CHOOSE i \in DOMAIN params.points :
                                              params.points[i] = j]]
                   ELSE kfs.points[j]]]

(***************************************************************************)
(* EnergyFunction::EnergyFunction                                          *)
(***************************************************************************)
\* lines 43-70 without the isMappable test of lines 52-53
ResidualsOfPointNoMapMut(kfs, op, pointInd) ==
  LET pt == kfs.points[op]
      ForTarget(t) ==
        IF t = pt.host THEN <<>>
        ELSE ConcatRange(
               [tc \in CamInds(kfs.cams) |->
                  IF <<t, tc>> \notin pt.onImage THEN <<>>
                  ELSE <<[hostInd |-> pt.host, hostCamInd |-> pt.hostCam,
                          targetInd |-> t, targetCamInd |-> tc,
                          pointInd |-> pointInd, op |-> op]>>],
               0, kfs.cams - 1)
  IN  ConcatRange([t \in KFInds(kfs.n) |-> ForTarget(t)], 0, kfs.n - 1)

\* lines 43-70 without the test of lines 44-45
ResidualsOfPointSelfMut(kfs, op, pointInd) ==
  LET pt == kfs.points[op]
      ForTarget(t) ==
        ConcatRange(
          [tc \in CamInds(kfs.cams) |->
             IF <<t, tc>> \notin pt.mappable THEN <<>>
             ELSE IF <<t, tc>> \notin pt.onImage THEN <<>>
             ELSE <<[hostInd |-> pt.host, hostCamInd |-> pt.hostCam,
                     targetInd |-> t, targetCamInd |-> tc,
                     pointInd |-> pointInd, op |-> op]>>],
          0, kfs.cams - 1)
  IN  ConcatRange([t \in KFInds(kfs.n) |-> ForTarget(t)], 0, kfs.n - 1)

\* the residuals of point op (lines 43-70), in loop order, given the index
\* the point gets in the parameter block
ResidualsOfPoint(kfs, op, pointInd) ==
  LET pt == kfs.points[op]
      ForTarget(t) ==
        IF t = pt.host THEN <<>>
        ELSE ConcatRange(
               [tc \in CamInds(kfs.cams) |->
                  IF <<t, tc>> \notin pt.mappable THEN <<>>
                  ELSE IF <<t, tc>> \notin pt.onImage THEN <<>>
                  ELSE <<[hostInd |-> pt.host, hostCamInd |-> pt.hostCam,
                          targetInd |-> t, targetCamInd |-> tc,
                          pointInd |-> pointInd, op |-> op]>>],
               0, kfs.cams - 1)
  IN  ConcatRange([t \in KFInds(kfs.n) |-> ForTarget(t)], 0, kfs.n - 1)

\* the keys hostToTarget.get is called with at line 49
ConstructionReads(kfs) ==
  IF kfs.n < 2 THEN {}
  ELSE UNION {{<<kfs.points[j].host, kfs.points[j].hostCam, t, tc>> :
                 t \in KFInds(kfs.n) \ {kfs.points[j].host},
                 tc \in CamInds(kfs.cams)} :
              j \in {i \in DOMAIN kfs.points : kfs.points[i].state = "ACTIVE"}}

\* the optimized points in the order of the loops of lines 35-38
PointOrder(kfs) ==
  ConcatRange(
    [h \in KFInds(kfs.n) |->
       ConcatRange(
         [hc \in CamInds(kfs.cams) |->
            SelectSeq(Indices(kfs.points),
                      LAMBDA j : kfs.points[j].host = h
                                 /\ kfs.points[j].hostCam = hc)],
         0, kfs.cams - 1)],
    0, kfs.n - 1)

\* lines 35-72 without the test of the point's state of lines 39-40
RECURSIVE BuildResidualsMut(_, _, _, _)
BuildResidualsMut(kfs, order, from, acc) ==
  IF from > Len(order) THEN acc
  ELSE LET op == order[from]
           rs == ResidualsOfPoint(kfs, op, Len(acc.optimizedPoints))
       IN  BuildResidualsMut(kfs, order, from + 1,
             IF rs = <<>> THEN acc
             ELSE [residuals |-> acc.residuals \o rs,
                   optimizedPoints |-> Append(acc.optimizedPoints, op)])

\* lines 35-72 with the position of the point among all points as the
\* pointInd of line 64 instead of optimizedPoints.size() - 1
RECURSIVE BuildResidualsPointIndMut(_, _, _, _)
BuildResidualsPointIndMut(kfs, order, from, acc) ==
  IF from > Len(order) THEN acc
  ELSE LET op == order[from]
           rs == IF kfs.points[op].state # "ACTIVE" THEN <<>>
                 ELSE ResidualsOfPoint(kfs, op, from - 1)
       IN  BuildResidualsPointIndMut(kfs, order, from + 1,
             IF rs = <<>> THEN acc
             ELSE [residuals |-> acc.residuals \o rs,
                   optimizedPoints |-> Append(acc.optimizedPoints, op)])

\* lines 35-72 over the points order[from..]: acc = [residuals, optimizedPoints]
RECURSIVE BuildResiduals(_, _, _, _)
BuildResiduals(kfs, order, from, acc) ==
  IF from > Len(order) THEN acc
  ELSE LET op == order[from]
           rs == IF kfs.points[op].state # "ACTIVE" THEN <<>>
                 ELSE ResidualsOfPoint(kfs, op, Len(acc.optimizedPoints))
       IN  BuildResiduals(kfs, order, from + 1,
             IF rs = <<>> THEN acc
             ELSE [residuals |-> acc.residuals \o rs,
                   optimizedPoints |-> Append(acc.optimizedPoints, op)])


(***************************************************************************)
(* Values and the total energy                                             *)
(***************************************************************************)
\* PrecomputedHostToTarget: targetBodyToWorld^-1 * hostBodyToWorld
HostToTarget(params, hi, hci, ti, tci) ==
  <<params.pose[hi][1] - params.pose[ti][1],
    params.pose[hi][2] - params.pose[ti][2],
    params.pose[hi][3] - params.pose[ti][3]>>

\* PrecomputedLightHostToTarget::get: lightWorldToTarget * lightWorldToHost^-1
LightHostToTarget(params, hi, hci, ti, tci) ==
  <<params.aff[ti][tci][1] - params.aff[hi][hci][1],
    params.aff[ti][tci][2] - params.aff[hi][hci][2]>>

\* Residual::getValues: target intensity at the reprojected pattern pixel
\* minus the light-transformed host intensity.  The target image is a ramp,
\* the host intensity is img.
getValues(hostToTarget, lightHostToTarget, logDepth, patternSize, img) ==
  [i \in 1..patternSize |->
     LET reproj == hostToTarget[1] + hostToTarget[2] + hostToTarget[3] + logDepth
         targetIntensity == reproj + (i - 1)
         hostIntensity == img + lightHostToTarget[1] + lightHostToTarget[2]
     IN  targetIntensity - hostIntensity]

\* Values::Values
createValues(rs, params, patternSize, img) ==
  [r \in 1..Len(rs) |->
     getValues(HostToTarget(params, rs[r].hostInd, rs[r].hostCamInd,
                            rs[r].targetInd, rs[r].targetCamInd),
               LightHostToTarget(params, rs[r].hostInd, rs[r].hostCamInd,
                                 rs[r].targetInd, rs[r].targetCamInd),
               params.logDepth[rs[r].pointInd + 1], patternSize, img)]

(***************************************************************************)
(* The precomputed tables.  A table maps every key                          *)
(* <<hostInd, hostCamInd, targetInd, targetCamInd>> to its entry; NullOpt   *)
(* is the empty std::optional of the two lazily filled tables.              *)
(***************************************************************************)
NullOpt == <<>>

TableKeys(params) ==
  {<<hi, hci, ti, tci>> : hi \in DOMAIN params.pose, hci \in DOMAIN params.aff[0],
                          ti \in DOMAIN params.pose, tci \in DOMAIN params.aff[0]}

\* the key a residual reads the tables with (lines 230-231, 368-369)
ResKey(r) == <<r.hostInd, r.hostCamInd, r.targetInd, r.targetCamInd>>
ResKeys(rs) == {ResKey(rs[i]) : i \in 1..Len(rs)}

\* PrecomputedHostToTarget::PrecomputedHostToTarget: every entry with
\* hostInd # targetInd is computed, the others stay the identity
PrecomputedHostToTarget(params) ==
  [k \in TableKeys(params) |->
     IF k[1] = k[3] THEN <<0, 0, 0>>
     ELSE HostToTarget(params, k[1], k[2], k[3], k[4])]

\* PrecomputedLightHostToTarget::PrecomputedLightHostToTarget: no entry yet
PrecomputedLightHostToTarget(params) == [k \in TableKeys(params) |-> NullOpt]

\* PrecomputedMotionDerivatives::PrecomputedMotionDerivatives: no entry yet
PrecomputedMotionDerivatives(params) == [k \in TableKeys(params) |-> NullOpt]

\* MotionDerivatives(camToBody, hostBodyToWorld, targetBodyToWorld, bodyToCam)
MotionDerivatives(params, hi, hci, ti, tci) == <<params.pose[hi], params.pose[ti]>>

\* the light table after PrecomputedLightHostToTarget::get was called with
\* every key of keys: an entry that is there is kept, a missing one is
\* computed from the parameters as they are now
LightGetAll(table, params, keys) ==
  [k \in DOMAIN table |->
     IF k \in keys /\ table[k] = NullOpt
     THEN LightHostToTarget(params, k[1], k[2], k[3], k[4])
     ELSE table[k]]

\* the same for PrecomputedMotionDerivatives::get
MotionGetAll(table, params, keys) ==
  [k \in DOMAIN table |->
     IF k \in keys /\ table[k] = NullOpt
     THEN MotionDerivatives(params, k[1], k[2], k[3], k[4])
     ELSE table[k]]

\* Values::Values, reading the two tables it is handed; lightHostToTarget is
\* the table after the get calls of line 236
Values(rs, params, hostToTarget, lightHostToTarget, patternSize, img) ==
  [r \in 1..Len(rs) |->
     getValues(hostToTarget[ResKey(rs[r])], lightHostToTarget[ResKey(rs[r])],
               params.logDepth[rs[r].pointInd + 1], patternSize, img)]

\* Derivatives::Derivatives: a Jacobian is a function of the arguments of
\* getJacobian (lines 377-379) and is kept as the record of those arguments
Derivatives(params, rs, values, hostToTarget, motionDerivatives, lightHostToTarget) ==
  [parametrizationJacobians |-> [pose |-> params.pose],
   residualJacobians |->
     [r \in 1..Len(rs) |->
        [curHostToTarget |-> hostToTarget[ResKey(rs[r])],
         dHostToTarget |-> motionDerivatives[ResKey(rs[r])],
         lightWorldToHost |-> params.aff[rs[r].hostInd][rs[r].hostCamInd],
         curLightHostToTarget |-> lightHostToTarget[ResKey(rs[r])],
         logDepth |-> params.logDepth[rs[r].pointInd + 1],
         cachedValues |-> values[r]]]]

\* getHessian(values, derivatives) and getGradient(values, derivatives): the
\* accumulated blocks are functions of the two arguments
getHessian(values, derivatives) ==
  [kind |-> "Hessian", values |-> values, derivatives |-> derivatives]

getGradient(values, derivatives) ==
  [kind |-> "Gradient", values |-> values, derivatives |-> derivatives]

\* some entry of the tables, under a key of keys, is not what the parameters
\* give now
StaleEntry(hostToTarget, lightHostToTarget, motionDerivatives, params, keys) ==
  \E k \in keys :
    \/ hostToTarget[k] # HostToTarget(params, k[1], k[2], k[3], k[4])
    \/ lightHostToTarget[k] # LightHostToTarget(params, k[1], k[2], k[3], k[4])
    \/ motionDerivatives[k] # MotionDerivatives(params, k[1], k[2], k[3], k[4])

\* ceres::LossFunction::Evaluate, rho[0] at s = v * v
LossRho(settings, v) ==
  IF settings.lossType = "HUBER" /\ v * v > settings.outlierDiff * settings.outlierDiff
  THEN 2 * settings.outlierDiff * Abs(v) - settings.outlierDiff * settings.outlierDiff
  ELSE v * v

RECURSIVE SumSeq(_, _)
SumSeq(f, n) == IF n = 0 THEN 0 ELSE f[n] + SumSeq(f, n - 1)

\* Values::totalEnergy after its CHECK_GT(valsAndCache.size(), 0)
totalEnergy(values, settings) ==
  LET patternSize == Len(values[1])
  IN  SumSeq([r \in 1..Len(values) |->
                SumSeq([i \in 1..patternSize |-> LossRho(settings, values[r][i])],
                       patternSize)],
             Len(values))

(***************************************************************************)
(* EnergyFunction: construction                                            *)
(***************************************************************************)
NoHist ==
  [kfRead |-> FALSE, ctorReads |-> {}, kfAtCall |-> <<>>, applyCount |-> 0, lastStep |-> "none",
   lastCur |-> 0, lastNew |-> 0, lastLambda |-> RInt(0), heads |-> <<>>, minSeen |-> 0,
   preUpdate |-> <<>>, trial |-> <<>>]

\* the constructor body after the member initialisers (lines 28-78)
ConstructBody(kfs) ==
  IF kfs.n < 2
  THEN \* CHECK(numKeyFrames >= 2)
       /\ pc' = "aborted"
       /\ residuals' = <<>>
       /\ parameters' = ParametersCtor(kfs)
  ELSE LET built == BuildResiduals(kfs, PointOrder(kfs), 1,
                                   [residuals |-> <<>>, optimizedPoints |-> <<>>])
       IN  /\ residuals' = built.residuals
           /\ parameters' = setPoints(ParametersCtor(kfs), built.optimizedPoints,
                                      kfs, efSettings)
           /\ pc' = "constructed"

\* EnergyFunction::EnergyFunction(camBundle, keyFrames, numKeyFrames, settings)
Construct ==
  /\ pc = "new"
  /\ ba.pc \in {"idle", "new"}
  /\ scCalls = 0
  /\ \/ /\ ~keyFrames.camNull
        /\ hist' = [hist EXCEPT !.kfRead = keyFrames.n >= 1,
                                !.ctorReads = ConstructionReads(keyFrames)]
        /\ ConstructBody(keyFrames)
     \/ \* a null CameraBundle is dereferenced: the process is killed, or the
        \* read yields an empty bundle
        /\ keyFrames.camNull
        /\ \/ /\ pc' = "aborted"
              /\ UNCHANGED <<hist, residuals, parameters>>
           \/ /\ hist' = [hist EXCEPT
                             !.kfRead = keyFrames.n >= 1,
                             !.ctorReads =
                               ConstructionReads([keyFrames EXCEPT !.cams = 0])]
              /\ ConstructBody([keyFrames EXCEPT !.cams = 0])
  /\ UNCHANGED <<keyFrames, efSettings, scene, maxIterations, it, lambda,
                 curValues, newValues, savedState, parametersUpdated>>
  /\ UNCHANGED <<varsSC, ba, dpv, caches, varsInspect, varsSystem>>

(***************************************************************************)
(* EnergyFunction::optimize                                                *)
(***************************************************************************)
DeltaVals == {-1, 0, 1}

\* the frame blocks <<rot, tx, ty, a, b>> the solver is taken to return
FrameDeltas ==
  {<<0, 0, 0, 0, 0>>, <<1, 0, 1, 0, 0>>, <<-1, 1, 0, 1, 0>>,
   <<0, 0, -1, -1, 1>>, <<1, -1, 1, 1, -1>>}

\* the nonzero block the solver is taken to return for keyframe 0
AnchorDelta == <<1, -1, 1, -1, 0>>

\* the DeltaParameterVectors dampedHessian.solve(gradient) may return
Deltas(params) ==
  {[pose |-> [k \in DOMAIN params.pose |-> <<f[k][1], f[k][2], f[k][3]>>],
    aff |-> [k \in DOMAIN params.aff |->
               [c \in DOMAIN params.aff[k] |-> <<f[k][4], f[k][5]>>]],
    point |-> pt] :
     f \in {g \in [DOMAIN params.pose -> FrameDeltas \cup {AnchorDelta}] :
              /\ g[0] \in {<<0, 0, 0, 0, 0>>, AnchorDelta}
              /\ \A k \in DOMAIN params.pose \ {0} : g[k] \in FrameDeltas},
     pt \in [DOMAIN params.logDepth -> DeltaVals]}

Energy(params) ==
  totalEnergy(createValues(residuals, params, efSettings.patternSize, scene),
              efSettings)

\* optimize()'s tables and what it computes from them, before line 160.
\* The fields reads, stale, head, solve and prevSolve are kept for the
\* properties: the keys read so far, whether a read returned an entry the
\* parameters no longer give, the objects at the head of the running
\* iteration, and what the last two solves were given.
TablesUnbuilt ==
  [hostToTarget |-> NullOpt, lightHostToTarget |-> NullOpt,
   motionDerivatives |-> NullOpt, curDerivatives |-> NullOpt,
   hessian |-> NullOpt, gradient |-> NullOpt,
   newHostToTarget |-> NullOpt, newLightHostToTarget |-> NullOpt,
   reads |-> {}, stale |-> FALSE,
   head |-> NullOpt, solve |-> NullOpt, prevSolve |-> NullOpt]

\* the tables are followed entry by entry (SpecTables); where they are not,
\* caches stays empty and the values are those createValues gives for the
\* parameters, which is what the tables yield (C23)
TablesFollowed == caches # <<>>

\* lines 158-168
OptimizeStart ==
  /\ pc = "constructed"
  /\ \E m \in 0..MaxIterations : maxIterations' = m
  /\ lambda' = efSettings.initialLambda
  /\ LET keys == ResKeys(residuals)
         hostToTarget == PrecomputedHostToTarget(parameters)
         lightHostToTarget ==
           LightGetAll(PrecomputedLightHostToTarget(parameters), parameters, keys)
         motionDerivatives ==
           MotionGetAll(PrecomputedMotionDerivatives(parameters), parameters, keys)
         values == Values(residuals, parameters, hostToTarget, lightHostToTarget,
                          efSettings.patternSize, scene)
         derivatives == Derivatives(parameters, residuals, values, hostToTarget,
                                    motionDerivatives, lightHostToTarget)
     IN  IF ~TablesFollowed
         THEN /\ curValues' = createValues(residuals, parameters,
                                           efSettings.patternSize, scene)
              /\ UNCHANGED caches
         ELSE /\ curValues' = values
              /\ caches' = [hostToTarget |-> hostToTarget,
                            lightHostToTarget |-> lightHostToTarget,
                            motionDerivatives |-> motionDerivatives,
                            curDerivatives |-> derivatives,
                            hessian |-> getHessian(values, derivatives),
                            gradient |-> getGradient(values, derivatives),
                            newHostToTarget |-> NullOpt,
                            newLightHostToTarget |-> NullOpt,
                            reads |-> keys,
                            stale |-> StaleEntry(hostToTarget, lightHostToTarget,
                                                 motionDerivatives, parameters, keys),
                            head |-> NullOpt,
                            solve |-> NullOpt,
                            prevSolve |-> NullOpt]
  /\ parametersUpdated' = FALSE
  /\ it' = 0
  /\ pc' = "loop"
  /\ hist' = [hist EXCEPT !.kfAtCall = keyFrames,
                          !.minSeen = IF residuals = <<>> THEN 0
                                      ELSE Energy(parameters)]
  /\ UNCHANGED <<keyFrames, efSettings, scene, residuals, parameters, newValues,
                 savedState>>
  /\ UNCHANGED <<varsSC, ba, dpv, varsInspect, varsSystem>>

\* lines 169-201: the head of an iteration up to the evaluation of the trial
\* point
IterationTrial ==
  /\ pc = "loop"
  /\ it < maxIterations
  /\ IF Len(curValues) = 0
     THEN \* CHECK_GT(valsAndCache.size(), 0) in totalEnergy, line 174
          /\ pc' = "aborted"
          /\ UNCHANGED <<parameters, savedState, newValues, hist, caches>>
     ELSE LET keys == ResKeys(residuals)
              \* lines 177-183
              motionDerivatives ==
                IF parametersUpdated
                THEN MotionGetAll(PrecomputedMotionDerivatives(parameters),
                                  parameters, keys)
                ELSE caches.motionDerivatives
              lightHostToTarget ==
                IF parametersUpdated
                THEN LightGetAll(caches.lightHostToTarget, parameters, keys)
                ELSE caches.lightHostToTarget
              curDerivatives ==
                IF parametersUpdated
                THEN Derivatives(parameters, residuals, curValues,
                                 caches.hostToTarget, motionDerivatives,
                                 lightHostToTarget)
                ELSE caches.curDerivatives
              hessian == IF parametersUpdated
                         THEN getHessian(curValues, curDerivatives)
                         ELSE caches.hessian
              gradient == IF parametersUpdated
                          THEN getGradient(curValues, curDerivatives)
                          ELSE caches.gradient
              stale ==
                \/ caches.stale
                \/ /\ parametersUpdated
                   /\ StaleEntry(caches.hostToTarget, lightHostToTarget,
                                 motionDerivatives, parameters, keys)
              head == [curValues |-> curValues,
                       hostToTarget |-> caches.hostToTarget,
                       lightHostToTarget |-> caches.lightHostToTarget,
                       motionDerivatives |-> caches.motionDerivatives,
                       curDerivatives |-> caches.curDerivatives,
                       hessian |-> caches.hessian,
                       gradient |-> caches.gradient,
                       parameters |-> parameters]
              solve == [hessian |-> hessian, gradient |-> gradient,
                        lambda |-> lambda, parameters |-> parameters,
                        curValues |-> curValues]
              refreshed ==
                IF ~TablesFollowed THEN caches
                ELSE [caches EXCEPT
                        !.motionDerivatives = motionDerivatives,
                        !.lightHostToTarget = lightHostToTarget,
                        !.curDerivatives = curDerivatives,
                        !.hessian = hessian,
                        !.gradient = gradient,
                        !.stale = stale,
                        !.head = head,
                        !.solve = solve,
                        !.prevSolve = caches.solve]
          IN
          \E delta \in Deltas(parameters) :
            \* lines 189-194
            LET updated == update(parameters, delta, efSettings)
                newHostToTarget == PrecomputedHostToTarget(updated)
                newLightHostToTarget ==
                  LightGetAll(PrecomputedLightHostToTarget(updated), updated, keys)
            IN
            /\ savedState' = saveState(parameters)
            /\ parameters' = updated
            /\ IF ~TablesFollowed
               THEN /\ newValues' = createValues(residuals, updated,
                                                 efSettings.patternSize, scene)
                    /\ UNCHANGED caches
               ELSE /\ newValues' = Values(residuals, updated, newHostToTarget,
                                           newLightHostToTarget,
                                           efSettings.patternSize, scene)
                    /\ caches' = [refreshed EXCEPT
                                    !.newHostToTarget = newHostToTarget,
                                    !.newLightHostToTarget = newLightHostToTarget]
            /\ pc' = "trial"
            /\ hist' = [hist EXCEPT
                          !.heads = Append(@, Energy(parameters)),
                          !.preUpdate = parameters,
                          !.trial = parameters',
                          !.minSeen = Min(@, totalEnergy(newValues', efSettings))]
  /\ UNCHANGED <<keyFrames, efSettings, scene, residuals, maxIterations, it,
                 lambda, curValues, parametersUpdated>>
  /\ UNCHANGED <<varsSC, ba, dpv, varsInspect, varsSystem>>

\* line 203 with > for >=
StepRejectedMut(newEnergy, curEnergy) == newEnergy > curEnergy

\* line 203 with the comparison turned around
StepRejectedInverted(newEnergy, curEnergy) == newEnergy <= curEnergy

\* the test of line 203
StepRejected(newEnergy, curEnergy) == newEnergy >= curEnergy

\* the end of an iteration, line 218: newHostToTarget and
\* newLightHostToTarget go out of scope
DropNewTables(c) ==
  IF c = <<>> THEN c
  ELSE [c EXCEPT !.newHostToTarget = NullOpt, !.newLightHostToTarget = NullOpt]

\* lines 210-211 left out: the tables of the rejected parameters are kept
MoveNewTablesMut(c) == DropNewTables(c)

\* lines 210-211: hostToTarget = std::move(newHostToTarget) and
\* lightHostToTarget = std::move(newLightHostToTarget), then line 218
MoveNewTables(c) ==
  IF c = <<>> THEN c
  ELSE [c EXCEPT !.hostToTarget = c.newHostToTarget,
                 !.lightHostToTarget = c.newLightHostToTarget,
                 !.newHostToTarget = NullOpt,
                 !.newLightHostToTarget = NullOpt]

\* lines 204-206 without the recoverState of line 204
RejectStepMut ==
  /\ lambda' = RMul(lambda, efSettings.failMultiplier)
  /\ parametersUpdated' = FALSE
  /\ caches' = DropNewTables(caches)
  /\ UNCHANGED <<parameters, curValues, keyFrames, residuals>>

\* lines 204-206 followed by the removal of the last residual
RejectStepPruneMut ==
  /\ parameters' = recoverState(parameters, savedState)
  /\ lambda' = RMul(lambda, efSettings.failMultiplier)
  /\ parametersUpdated' = FALSE
  /\ residuals' = SubSeq(residuals, 1, Len(residuals) - 1)
  /\ caches' = DropNewTables(caches)
  /\ UNCHANGED <<curValues, keyFrames>>

\* lines 204-206
RejectStep ==
  /\ parameters' = recoverState(parameters, savedState)
  /\ lambda' = RMul(lambda, efSettings.failMultiplier)
  /\ parametersUpdated' = FALSE
  /\ caches' = DropNewTables(caches)
  /\ UNCHANGED <<curValues, keyFrames, residuals>>

\* lines 208-212 followed by a parameters.apply()
AcceptStepMut ==
  /\ lambda' = RMul(lambda, efSettings.successMultiplier)
  /\ curValues' = newValues
  /\ parametersUpdated' = TRUE
  /\ keyFrames' = apply(parameters, keyFrames)
  /\ caches' = MoveNewTables(caches)
  /\ UNCHANGED <<parameters, residuals>>

\* lines 208-212 with the multiplier of line 205
AcceptStepFailMut ==
  /\ lambda' = RMul(lambda, efSettings.failMultiplier)
  /\ curValues' = newValues
  /\ parametersUpdated' = TRUE
  /\ caches' = MoveNewTables(caches)
  /\ UNCHANGED <<parameters, keyFrames, residuals>>

\* lines 208-212
AcceptStep ==
  /\ lambda' = RMul(lambda, efSettings.successMultiplier)
  /\ curValues' = newValues
  /\ parametersUpdated' = TRUE
  /\ caches' = MoveNewTables(caches)
  /\ UNCHANGED <<parameters, keyFrames, residuals>>

\* lines 203-217: the decision on the trial point and the end of the iteration
IterationDecide ==
  /\ pc = "trial"
  /\ LET curEnergy == totalEnergy(curValues, efSettings)
         newEnergy == totalEnergy(newValues, efSettings)
     IN  /\ IF StepRejected(newEnergy, curEnergy)
            THEN RejectStep /\ hist' = [hist EXCEPT !.lastStep = "rejected",
                                                    !.lastCur = curEnergy,
                                                    !.lastNew = newEnergy,
                                                    !.lastLambda = lambda]
            ELSE AcceptStep /\ hist' = [hist EXCEPT !.lastStep = "accepted",
                                                    !.lastCur = curEnergy,
                                                    !.lastNew = newEnergy,
                                                    !.lastLambda = lambda]
  /\ it' = it + 1
  /\ pc' = "loop"
  /\ UNCHANGED <<efSettings, scene, maxIterations, newValues, savedState>>
  /\ UNCHANGED <<varsSC, ba, dpv, varsInspect, varsSystem>>

\* line 219
OptimizeApply ==
  /\ pc = "loop"
  /\ it >= maxIterations
  /\ keyFrames' = apply(parameters, keyFrames)
  /\ hist' = [hist EXCEPT !.applyCount = @ + 1]
  /\ pc' = "done"
  /\ UNCHANGED <<efSettings, scene, residuals, parameters, maxIterations, it,
                 lambda, curValues, newValues, savedState, parametersUpdated>>
  /\ UNCHANGED <<varsSC, ba, dpv, caches, varsInspect, varsSystem>>


(***************************************************************************)
(* Specification of the EnergyFunction: construction, then one optimize(). *)
(***************************************************************************)
AllTargets(n, cams) == KFInds(n) \X CamInds(cams)

\* the settings the EnergyFunction is run with
EnergyFunctionSettings(patternSizes) ==
  [lossType          : {"TRIVIAL", "HUBER"},
   outlierDiff       : {1},
   patternSize       : patternSizes,
   logMinDepth       : {-1},
   logMaxDepth       : {1},
   minAffineLightA   : {-1},
   maxAffineLightA   : {1},
   minAffineLightB   : {-1},
   maxAffineLightB   : {1},
   minFirstToSecondRadiusSq : {1},
   initialLambda     : {RInt(1)},
   failMultiplier    : {RInt(2)},
   successMultiplier : {Rat(1, 2)}]

\* sequences of at most MaxPoints optimized points, all ACTIVE, each seen
\* either in every other frame or (points of keyframe 0) in none, with their
\* log-depths drawn from depths
OptPointSeqs(n, cams, depths) ==
  UNION {[1..len ->
            {pt \in [host : KFInds(n), hostCam : CamInds(cams),
                     state : {"ACTIVE"}, logDepth : depths,
                     mappable : {AllTargets(n, cams)},
                     onImage : {{}, AllTargets(n, cams)}] :
               pt.onImage = {} => pt.host = 0}] : len \in 0..MaxPoints}

\* windows of two keyframes with a single camera
Windows(depths) ==
  [n : {2}, cams : {1}, camNull : {FALSE},
   pose : {(0 :> <<1, 0, 0>>) @@ (1 :> <<2, x, 0>>) : x \in {1, 2}},
   aff : {(0 :> (0 :> <<1, -1>>)) @@ (1 :> (0 :> <<0, 1>>))},
   points : OptPointSeqs(2, 1, depths)]

InitOpt ==
  /\ keyFrames \in Windows({-2, 1})
  /\ efSettings \in EnergyFunctionSettings({1})
  /\ scene = 2
  /\ residuals = <<>> /\ parameters = <<>> /\ pc = "new" /\ maxIterations = 0
  /\ it = 0 /\ lambda = RInt(0) /\ curValues = <<>> /\ newValues = <<>>
  /\ savedState = <<>> /\ parametersUpdated = FALSE /\ hist = NoHist
  /\ BAIdle
  /\ DPIdle
  /\ OthersIdle
  /\ StepControllerInit
  /\ scSettings.initialLambda = RInt(1)
  /\ scSettings.initialFailMultiplier = RInt(2)
  /\ scSettings.acceptedQuality = RInt(0)

NextOpt ==
  \/ Construct
  \/ OptimizeStart
  \/ IterationTrial
  \/ IterationDecide
  \/ OptimizeApply

SpecOpt == InitOpt /\ [][NextOpt]_vars

\* optimize() with its tables followed entry by entry, under the trivial
\* loss and with the second keyframe at one pose
InitTables ==
  /\ keyFrames \in {w \in Windows({-2, 1}) : w.pose[1] = <<2, 2, 0>>}
  /\ efSettings \in {st \in EnergyFunctionSettings({1}) : st.lossType = "TRIVIAL"}
  /\ scene = 2
  /\ residuals = <<>> /\ parameters = <<>> /\ pc = "new" /\ maxIterations = 0
  /\ it = 0 /\ lambda = RInt(0) /\ curValues = <<>> /\ newValues = <<>>
  /\ savedState = <<>> /\ parametersUpdated = FALSE /\ hist = NoHist
  /\ BAIdle
  /\ DPIdle
  /\ caches = TablesUnbuilt
  /\ pre = <<>> /\ ev = <<>>
  /\ rp = [pc |-> "idle"] /\ ps = [pc |-> "idle"]
  /\ StepControllerInit
  /\ scSettings.initialLambda = RInt(1)
  /\ scSettings.initialFailMultiplier = RInt(2)
  /\ scSettings.acceptedQuality = RInt(0)

SpecTables == InitTables /\ [][NextOpt]_vars


(***************************************************************************)
(* BundleAdjusterCeres                                                     *)
(*                                                                         *)
(* ba = [pc, settings, maxNum, iter, constant, sphere, points, residuals,  *)
(*       x, kfAtCall]: the parameter blocks are named <<"trans", k>>,      *)
(* <<"rot", k>>, <<"aff", k, c>> and <<"depth", j>>; x is the state vector *)
(* ceres::Solve works on, written to the user's memory when Solve returns. *)
(***************************************************************************)
BundleAdjusterSettings ==
  [fixedRotationOnSecondKF : BOOLEAN,
   fixedMotionOnFirstAdjustent : BOOLEAN,
   optimizeAffineLight : BOOLEAN]

\* BundleAdjusterCeres::BundleAdjusterCeres
BAConstruct ==
  /\ ba.pc = "new"
  /\ pc = "new"
  /\ \E st \in BundleAdjusterSettings :
       \/ /\ ~keyFrames.camNull
          /\ ba' = [pc |-> IF keyFrames.n >= 2 /\ keyFrames.cams = 1
                           THEN "constructed" ELSE "aborted",
                    settings |-> st]
       \/ \* cam->bundle.size() through a null pointer
          /\ keyFrames.camNull
          /\ \E p \in {"constructed", "aborted"} :
               ba' = [pc |-> IF keyFrames.n >= 2 THEN p ELSE "aborted",
                      settings |-> st]
  /\ UNCHANGED <<varsSC, varsEF, dpv, caches, varsInspect, varsSystem>>

\* lines 143-146 without the affine blocks of keyframe 0
BAAnchorBlocksMut(kfs) == {<<"trans", 0>>, <<"rot", 0>>}

\* lines 143-146: the blocks of keyframe 0 set constant
BAAnchorBlocks(kfs) ==
  {<<"trans", 0>>, <<"rot", 0>>}
    \cup {<<"aff", 0, c>> : c \in DOMAIN kfs.aff[0]}

\* line 153 with >= for >
BASphereMut(kfs, settings) ==
  DistSq(Trans(kfs.pose[1]), Trans(kfs.pose[0])) >= settings.minFirstToSecondRadiusSq

\* radius > minFirstToSecondRadius, line 153
BASphere(kfs, settings) ==
  DistSq(Trans(kfs.pose[1]), Trans(kfs.pose[0])) > settings.minFirstToSecondRadiusSq

\* every block SetParameterBlockConstant is called on, lines 137-167
BAConstantBlocks(kfs, settings, st) ==
  BAAnchorBlocks(kfs)
    \cup (IF st.optimizeAffineLight THEN {}
          ELSE {<<"aff", k, c>> : k \in DOMAIN kfs.aff, c \in CamInds(kfs.cams)})
    \cup (IF BASphere(kfs, settings) THEN {} ELSE {<<"trans", 1>>})
    \cup (IF st.fixedRotationOnSecondKF THEN {<<"rot", 1>>} ELSE {})
    \cup (IF st.fixedMotionOnFirstAdjustent /\ kfs.n = 2
          THEN {<<"trans", 1>>, <<"rot", 1>>} ELSE {})

\* the points whose logDepth becomes a parameter block, lines 173-184
BAPointBlocks(kfs, settings) ==
  {j \in DOMAIN kfs.points :
     ~(kfs.points[j].logDepth <= settings.logMinDepth
       \/ kfs.points[j].logDepth >= settings.logMaxDepth)}

\* the residual blocks, lines 186-250, one per (point, target, pattern index)
BAResiduals(kfs, settings) ==
  UNION {
    {[hostInd |-> kfs.points[j].host, hostCamInd |-> kfs.points[j].hostCam,
      targetInd |-> t[1], targetCamInd |-> t[2], op |-> j, i |-> i] :
       t \in {u \in AllTargets(kfs.n, kfs.cams) :
                u[1] # kfs.points[j].host /\ u \in kfs.points[j].onImage},
       i \in 1..settings.patternSize} :
    j \in BAPointBlocks(kfs, settings)}

\* DirectResidual::operator() under the Huber loss
BAResidualCost(x, r, settings, img) ==
  LET hostToTarget == HostToTarget(x, r.hostInd, r.hostCamInd, r.targetInd,
                                   r.targetCamInd)
      lightHostToTarget == LightHostToTarget(x, r.hostInd, r.hostCamInd,
                                             r.targetInd, r.targetCamInd)
      v == getValues(hostToTarget, lightHostToTarget, x.logDepth[r.op],
                     r.i, img)[r.i]
  IN  LossRho([settings EXCEPT !.lossType = "HUBER"], v)

RECURSIVE SumSet(_, _)
SumSet(S, f) ==
  IF S = {} THEN 0
  ELSE LET e == CHOOSE e \in S : TRUE IN f[e] + SumSet(S \ {e}, f)

\* the cost ceres evaluates
BACost(x) ==
  SumSet(ba.residuals,
         [r \in ba.residuals |-> BAResidualCost(x, r, efSettings, scene)])

\* lines 104-262: the problem is built
AdjustSetup ==
  /\ ba.pc = "constructed"
  /\ \E m \in 0..MaxIterations :
       ba' = [pc |-> "solving", settings |-> ba.settings, maxNum |-> m,
              iter |-> 0,
              constant |-> BAConstantBlocks(keyFrames, efSettings, ba.settings),
              sphere |-> BASphere(keyFrames, efSettings),
              points |-> BAPointBlocks(keyFrames, efSettings),
              residuals |-> BAResiduals(keyFrames, efSettings),
              x |-> [pose |-> keyFrames.pose, aff |-> keyFrames.aff,
                     logDepth |-> [j \in BAPointBlocks(keyFrames, efSettings) |->
                                     keyFrames.points[j].logDepth]],
              kfAtCall |-> keyFrames]
  /\ UNCHANGED <<varsSC, varsEF, dpv, caches, varsInspect, varsSystem>>

\* the candidate point of one solver iteration: constant blocks stay, the
\* local parameterizations and the bounds are applied
BAPlus(b, delta) ==
  [pose |-> [k \in DOMAIN b.x.pose |->
               LET d == delta.pose[k]
                   t == IF <<"trans", k>> \in b.constant THEN Trans(b.x.pose[k])
                        ELSE IF k = 1 /\ b.sphere
                        THEN SphericalPlus(Trans(b.kfAtCall.pose[0]),
                                           Trans(b.x.pose[k]), <<d[2], d[3]>>)
                        ELSE <<b.x.pose[k][2] + d[2], b.x.pose[k][3] + d[3]>>
                   r == IF <<"rot", k>> \in b.constant THEN b.x.pose[k][1]
                        ELSE b.x.pose[k][1] + d[1]
               IN  <<r, t[1], t[2]>>],
   aff |-> [k \in DOMAIN b.x.aff |-> [c \in DOMAIN b.x.aff[k] |->
              IF <<"aff", k, c>> \in b.constant THEN b.x.aff[k][c]
              ELSE <<Clamp(b.x.aff[k][c][1] + delta.aff[k][c][1],
                           efSettings.minAffineLightA, efSettings.maxAffineLightA),
                     Clamp(b.x.aff[k][c][2] + delta.aff[k][c][2],
                           efSettings.minAffineLightB, efSettings.maxAffineLightB)>>]],
   logDepth |-> [j \in DOMAIN b.x.logDepth |->
                   Clamp(b.x.logDepth[j] + delta.point[j],
                         efSettings.logMinDepth, efSettings.logMaxDepth)]]

\* one iteration of ceres::Solve (line 264): a step is taken when it lowers
\* the cost
AdjustSolveIteration ==
  /\ ba.pc = "solving"
  /\ ba.iter < ba.maxNum
  /\ \E delta \in Deltas(ba.x) :
       LET cand == BAPlus(ba, delta)
       IN  ba' = [ba EXCEPT !.iter = @ + 1,
                            !.x = IF BACost(cand) < BACost(ba.x) THEN cand ELSE @]
  /\ UNCHANGED <<varsSC, varsEF, dpv, caches, varsInspect, varsSystem>>

\* ceres::Solve returns, writing the affine and depth blocks to the keyframes
\* they live in; lines 266-267 then write the poses back
AdjustFinish ==
  /\ ba.pc = "solving"
  /\ ba.iter >= ba.maxNum
  /\ keyFrames' =
       [keyFrames EXCEPT
          !.pose = ba.x.pose,
          !.aff = ba.x.aff,
          !.points = [j \in DOMAIN keyFrames.points |->
                        IF j \in ba.points
                        THEN [keyFrames.points[j] EXCEPT !.logDepth = ba.x.logDepth[j]]
                        ELSE keyFrames.points[j]]]
  /\ ba' = [ba EXCEPT !.pc = "done"]
  /\ UNCHANGED <<efSettings, scene, residuals, parameters, pc, maxIterations,
                 it, lambda, curValues, newValues, savedState,
                 parametersUpdated, hist>>
  /\ UNCHANGED <<varsSC, dpv, caches, varsInspect, varsSystem>>

(***************************************************************************)
(* Specification of one bundle adjustment of a window of two keyframes,    *)
(* run by the EnergyFunction or by the BundleAdjusterCeres.                *)
(***************************************************************************)
Init ==
  /\ keyFrames \in Windows({-2, 0})
  /\ efSettings \in EnergyFunctionSettings({1})
  /\ scene = 2
  /\ residuals = <<>> /\ parameters = <<>> /\ pc = "new" /\ maxIterations = 0
  /\ it = 0 /\ lambda = RInt(0) /\ curValues = <<>> /\ newValues = <<>>
  /\ savedState = <<>> /\ parametersUpdated = FALSE /\ hist = NoHist
  /\ ba = [pc |-> "new"]
  /\ DPIdle
  /\ OthersIdle
  /\ StepControllerInit
  /\ scSettings.initialLambda = RInt(1)
  /\ scSettings.initialFailMultiplier = RInt(2)
  /\ scSettings.acceptedQuality = RInt(0)

Next ==
  \/ Construct
  \/ OptimizeStart
  \/ IterationTrial
  \/ IterationDecide
  \/ OptimizeApply
  \/ BAConstruct
  \/ AdjustSetup
  \/ AdjustSolveIteration
  \/ AdjustFinish

Spec == Init /\ [][Next]_vars


(***************************************************************************)
(* Specification of the constructors alone, over windows of any size, null *)
(* and empty camera bundles and empty residual patterns.                   *)
(***************************************************************************)
CtorWindows ==
  UNION {[n : {n}, cams : {cams}, camNull : IF cams = 0 THEN BOOLEAN ELSE {FALSE},
          pose : {[k \in KFInds(n) |-> <<k + 1, k, 0>>]},
          aff : {[k \in KFInds(n) |-> [c \in CamInds(cams) |-> <<0, 0>>]]},
          points : OptPointSeqs(n, cams, {-2, 0})] :
         n \in 0..MaxKeyFrames, cams \in 0..MaxCams}

InitCtor ==
  /\ keyFrames \in CtorWindows
  /\ efSettings \in EnergyFunctionSettings(0..MaxPattern)
  /\ scene = 0
  /\ residuals = <<>> /\ parameters = <<>> /\ pc = "new" /\ maxIterations = 0
  /\ it = 0 /\ lambda = RInt(0) /\ curValues = <<>> /\ newValues = <<>>
  /\ savedState = <<>> /\ parametersUpdated = FALSE /\ hist = NoHist
  /\ ba = [pc |-> "new"]
  /\ DPIdle
  /\ OthersIdle
  /\ StepControllerInit
  /\ scSettings.initialLambda = RInt(1)
  /\ scSettings.initialFailMultiplier = RInt(2)
  /\ scSettings.acceptedQuality = RInt(0)

NextCtor ==
  \/ Construct
  \/ BAConstruct

SpecCtor == InitCtor /\ [][NextCtor]_vars


(***************************************************************************)
(* Specification of BundleAdjusterCeres alone, over windows of two and of  *)
(* three keyframes whose first baseline exceeds the threshold.             *)
(***************************************************************************)
AdjustSizes == {2, 3}

AdjustWindows ==
  UNION {[n : {n}, cams : {1}, camNull : {FALSE},
          pose : {[k \in KFInds(n) |-> IF k = 0 THEN <<1, 0, 0>>
                                       ELSE IF k = 1 THEN <<2, 2, 0>>
                                       ELSE <<k + 1, 0, k>>]},
          aff : {[k \in KFInds(n) |-> [c \in CamInds(1) |->
                    IF k = 0 THEN <<1, -1>> ELSE <<0, 1>>]]},
          points : OptPointSeqs(n, 1, {0})] : n \in AdjustSizes}

InitAdjust ==
  /\ keyFrames \in AdjustWindows
  /\ efSettings \in EnergyFunctionSettings({1})
  /\ scene \in {0, 2}
  /\ residuals = <<>> /\ parameters = <<>> /\ pc = "new" /\ maxIterations = 0
  /\ it = 0 /\ lambda = RInt(0) /\ curValues = <<>> /\ newValues = <<>>
  /\ savedState = <<>> /\ parametersUpdated = FALSE /\ hist = NoHist
  /\ ba = [pc |-> "new"]
  /\ DPIdle
  /\ OthersIdle
  /\ StepControllerInit
  /\ scSettings.initialLambda = RInt(1)
  /\ scSettings.initialFailMultiplier = RInt(2)
  /\ scSettings.acceptedQuality = RInt(0)

NextAdjust ==
  \/ BAConstruct
  \/ AdjustSetup
  \/ AdjustSolveIteration
  \/ AdjustFinish

SpecAdjust == InitAdjust /\ [][NextAdjust]_vars


(***************************************************************************)
(* DeltaParameterVector                                                    *)
(*                                                                         *)
(* dpv = [calls, frame, point, maxAbsDeltaD, before, beforeMax]: the frame *)
(* and point parts of the vector, and for the properties the argument of   *)
(* the last constraintDepths call, the parts before it and the argument of *)
(* the call before it.                                                     *)
(***************************************************************************)
\* the values a point delta may hold
DeltaDepths == {RInt(k) : k \in (-MaxDelta)..MaxDelta} \cup {NaN, PosInf}

\* the arguments constraintDepths is called with
DepthLimits == {RInt(k) : k \in (-1)..MaxDelta} \cup {Rat(1, 2), PosInf, NaN}

\* lines 41-45 with >= for >
constraintDepthsMut(point, maxAbsDeltaD) ==
  [i \in DOMAIN point |->
     IF RLe(maxAbsDeltaD, RAbs(point[i])) THEN RInt(0) ELSE point[i]]

\* DeltaParameterVector::constraintDepths, on the point part
constraintDepths(point, maxAbsDeltaD) ==
  [i \in DOMAIN point |->
     IF RGt(RAbs(point[i]), maxAbsDeltaD) THEN RInt(0) ELSE point[i]]

\* DeltaParameterVector::DeltaParameterVector(numKeyFrames, numCameras,
\* frame, point)
InitDelta ==
  /\ \E frame \in {<<RInt(1), RInt(-2)>>, <<RInt(0), Rat(1, 2)>>},
        len \in 0..(MaxPoints + 1) :
       \E point \in [1..len -> DeltaDepths] :
         dpv = [calls |-> 0, frame |-> frame, point |-> point,
                maxAbsDeltaD |-> NaN, before |-> <<>>, beforeMax |-> NaN]
  /\ StepControllerInit
  /\ scSettings.initialLambda = RInt(1)
  /\ scSettings.initialFailMultiplier = RInt(2)
  /\ scSettings.acceptedQuality = RInt(0)
  /\ EFIdle
  /\ BAIdle
  /\ OthersIdle

ConstraintDepthsCall ==
  /\ dpv.calls < MaxSteps
  /\ \E maxAbsDeltaD \in DepthLimits :
       dpv' = [calls |-> dpv.calls + 1,
               frame |-> dpv.frame,
               point |-> constraintDepths(dpv.point, maxAbsDeltaD),
               maxAbsDeltaD |-> maxAbsDeltaD,
               before |-> [frame |-> dpv.frame, point |-> dpv.point],
               beforeMax |-> dpv.maxAbsDeltaD]
  /\ UNCHANGED <<varsSC, varsEF, ba, caches, varsInspect, varsSystem>>

NextDelta == ConstraintDepthsCall

SpecDelta == InitDelta /\ [][NextDelta]_vars


(***************************************************************************)
(* Specification of the two places lambda is updated: a StepController     *)
(* taking newStep calls, or an EnergyFunction running one optimize(), for   *)
(* initial lambdas 0 and 1.                                                *)
(***************************************************************************)
InitLambda ==
  /\ keyFrames \in {w \in Windows({-2, 1}) :
                      /\ Len(w.points) = 1
                      /\ w.points[1].host = 0
                      /\ w.points[1].onImage # {}
                      /\ w.pose[1][2] = 2}
  /\ \E st \in EnergyFunctionSettings({1}), l \in {RInt(0), RInt(1)} :
       /\ st.lossType = "TRIVIAL"
       /\ efSettings = [st EXCEPT !.initialLambda = l]
  /\ scene = 2
  /\ residuals = <<>> /\ parameters = <<>> /\ pc = "new" /\ maxIterations = 0
  /\ it = 0 /\ lambda = RInt(0) /\ curValues = <<>> /\ newValues = <<>>
  /\ savedState = <<>> /\ parametersUpdated = FALSE /\ hist = NoHist
  /\ BAIdle
  /\ DPIdle
  /\ OthersIdle
  /\ StepControllerInit
  /\ scSettings.initialFailMultiplier = RInt(2)

NextLambda ==
  \/ NewStepCall
  \/ Construct
  \/ OptimizeStart
  \/ IterationTrial
  \/ IterationDecide
  \/ OptimizeApply

SpecLambda == InitLambda /\ [][NextLambda]_vars


(***************************************************************************)
(* Specification of the EnergyFunction constructor on valid windows of two *)
(* and of three keyframes whose points are in any state.                   *)
(***************************************************************************)
PointStates == {"ACTIVE", "OUTLIER", "OOB"}

\* sequences of at most MaxPoints + 2 optimized points in any state
BuildPointSeqs(n, cams) ==
  UNION {[1..len ->
            {pt \in [host : KFInds(n), hostCam : CamInds(cams),
                     state : PointStates, logDepth : {0},
                     mappable : {AllTargets(n, cams)},
                     onImage : {{}, AllTargets(n, cams)}] :
               pt.onImage = {} => pt.host = 0}] : len \in 0..(MaxPoints + 2)}

BuildWindows ==
  UNION {[n : {n}, cams : {1}, camNull : {FALSE},
          pose : {[k \in KFInds(n) |-> <<k + 1, k, 0>>]},
          aff : {[k \in KFInds(n) |-> [c \in CamInds(1) |-> <<0, 0>>]]},
          points : BuildPointSeqs(n, 1)] : n \in AdjustSizes}

InitBuild ==
  /\ keyFrames \in BuildWindows
  /\ efSettings \in {st \in EnergyFunctionSettings({1}) : st.lossType = "TRIVIAL"}
  /\ scene = 0
  /\ residuals = <<>> /\ parameters = <<>> /\ pc = "new" /\ maxIterations = 0
  /\ it = 0 /\ lambda = RInt(0) /\ curValues = <<>> /\ newValues = <<>>
  /\ savedState = <<>> /\ parametersUpdated = FALSE /\ hist = NoHist
  /\ BAIdle
  /\ DPIdle
  /\ OthersIdle
  /\ StepControllerInit
  /\ scSettings.initialLambda = RInt(1)
  /\ scSettings.initialFailMultiplier = RInt(2)
  /\ scSettings.acceptedQuality = RInt(0)

NextBuild == Construct

SpecBuild == InitBuild /\ [][NextBuild]_vars


(***************************************************************************)
(* EnergyFunction: the inspection accessors and the members they fill.     *)
(*                                                                         *)
(* pre = [values, derivatives, accessor, ret, current]: the two            *)
(* std::optional members, the accessor called last, what it returned and   *)
(* what the parameters of that moment give when evaluated anew.            *)
(***************************************************************************)
NoPrecomputations ==
  [values |-> NullOpt, derivatives |-> NullOpt, accessor |-> "none",
   ret |-> NullOpt, current |-> NullOpt]

\* the tables an accessor builds for its call (lines 89-91, 117-119, 146-148,
\* 405-407), after the get calls of the evaluation
AccessorTables ==
  [hostToTarget |-> PrecomputedHostToTarget(parameters),
   lightHostToTarget |->
     LightGetAll(PrecomputedLightHostToTarget(parameters), parameters,
                 ResKeys(residuals)),
   motionDerivatives |->
     MotionGetAll(PrecomputedMotionDerivatives(parameters), parameters,
                  ResKeys(residuals))]

\* Values and Derivatives of the parameters as they are now
CurrentValues ==
  Values(residuals, parameters, AccessorTables.hostToTarget,
         AccessorTables.lightHostToTarget, efSettings.patternSize, scene)
CurrentDerivatives ==
  Derivatives(parameters, residuals, CurrentValues,
              AccessorTables.hostToTarget, AccessorTables.motionDerivatives,
              AccessorTables.lightHostToTarget)

\* getAllValues(hostToTarget, lightHostToTarget), lines 411-418: the member
\* values after the call
getAllValues(p) == IF p.values = NullOpt THEN CurrentValues ELSE p.values

\* getDerivatives(hostToTarget, motionDerivatives, lightHostToTarget), lines
\* 428-437: the member derivatives after the call
getDerivatives(p) ==
  IF p.derivatives = NullOpt
  THEN Derivatives(parameters, residuals, getAllValues(p),
                   AccessorTables.hostToTarget, AccessorTables.motionDerivatives,
                   AccessorTables.lightHostToTarget)
  ELSE p.derivatives

\* an accessor may be called: the object is constructed and optimize() is
\* not running
CanInspect == pre # <<>> /\ pc \in {"constructed", "done"}

\* EnergyFunction::getResidualValues(residualInd)
GetResidualValuesCall ==
  /\ CanInspect
  /\ \E residualInd \in -1..Len(residuals) :
       IF residualInd < 0 \/ residualInd >= Len(residuals)
       THEN \* CHECK_GE(residualInd, 0), CHECK_LT(residualInd, residuals.size())
            /\ pc' = "aborted"
            /\ UNCHANGED pre
       ELSE /\ pre' = [pre EXCEPT
                         !.values = getAllValues(pre),
                         !.accessor = "getResidualValues",
                         !.ret = getAllValues(pre)[residualInd + 1],
                         !.current = CurrentValues[residualInd + 1]]
            /\ UNCHANGED pc
  /\ UNCHANGED <<keyFrames, efSettings, scene, residuals, parameters,
                 maxIterations, it, lambda, curValues, newValues, savedState,
                 parametersUpdated, hist>>
  /\ UNCHANGED <<varsSC, ba, dpv, caches, ev, varsSystem>>

\* EnergyFunction::getHessian()
GetHessianCall ==
  /\ CanInspect
  /\ pre' = [pre EXCEPT
               !.values = getAllValues(pre),
               !.derivatives = getDerivatives(pre),
               !.accessor = "getHessian",
               !.ret = getHessian(getAllValues(pre), getDerivatives(pre)),
               !.current = getHessian(CurrentValues, CurrentDerivatives)]
  /\ UNCHANGED <<varsSC, varsEF, ba, dpv, caches, ev, varsSystem>>

\* EnergyFunction::getGradient()
GetGradientCall ==
  /\ CanInspect
  /\ pre' = [pre EXCEPT
               !.values = getAllValues(pre),
               !.derivatives = getDerivatives(pre),
               !.accessor = "getGradient",
               !.ret = getGradient(getAllValues(pre), getDerivatives(pre)),
               !.current = getGradient(CurrentValues, CurrentDerivatives)]
  /\ UNCHANGED <<varsSC, varsEF, ba, dpv, caches, ev, varsSystem>>

\* EnergyFunction::precomputeValuesAndDerivatives()
PrecomputeValuesAndDerivativesCall ==
  /\ CanInspect
  /\ pre' = [pre EXCEPT !.values = getAllValues(pre),
                        !.derivatives = getDerivatives(pre)]
  /\ UNCHANGED <<varsSC, varsEF, ba, dpv, caches, ev, varsSystem>>

\* EnergyFunction::clearPrecomputations()
ClearPrecomputationsCall ==
  /\ CanInspect
  /\ pre' = [pre EXCEPT !.values = NullOpt, !.derivatives = NullOpt]
  /\ UNCHANGED <<varsSC, varsEF, ba, dpv, caches, ev, varsSystem>>

(***************************************************************************)
(* Specification of an EnergyFunction that is constructed, inspected,      *)
(* optimized once and inspected again, over windows of two keyframes with  *)
(* one ACTIVE point whose ray is mappable into, and on the image of, any   *)
(* set of targets.                                                         *)
(***************************************************************************)
InspectWindows ==
  [n : {2}, cams : {1}, camNull : {FALSE},
   pose : {(0 :> <<1, 0, 0>>) @@ (1 :> <<2, 2, 0>>)},
   aff : {(0 :> (0 :> <<1, -1>>)) @@ (1 :> (0 :> <<0, 1>>))},
   points : [1..1 -> [host : KFInds(2), hostCam : CamInds(1),
                      state : {"ACTIVE"}, logDepth : {0},
                      mappable : SUBSET AllTargets(2, 1),
                      onImage : SUBSET AllTargets(2, 1)]]]

InitInspect ==
  /\ keyFrames \in InspectWindows
  /\ efSettings \in {st \in EnergyFunctionSettings({1}) : st.lossType = "TRIVIAL"}
  /\ scene = 2
  /\ residuals = <<>> /\ parameters = <<>> /\ pc = "new" /\ maxIterations = 0
  /\ it = 0 /\ lambda = RInt(0) /\ curValues = <<>> /\ newValues = <<>>
  /\ savedState = <<>> /\ parametersUpdated = FALSE /\ hist = NoHist
  /\ BAIdle
  /\ DPIdle
  /\ caches = <<>>
  /\ pre = NoPrecomputations /\ ev = <<>>
  /\ rp = [pc |-> "idle"] /\ ps = [pc |-> "idle"]
  /\ StepControllerInit
  /\ scSettings.initialLambda = RInt(1)
  /\ scSettings.initialFailMultiplier = RInt(2)
  /\ scSettings.acceptedQuality = RInt(0)

NextInspect ==
  \/ Construct
  \/ GetResidualValuesCall
  \/ GetHessianCall
  \/ GetGradientCall
  \/ PrecomputeValuesAndDerivativesCall
  \/ ClearPrecomputationsCall
  \/ OptimizeStart
  \/ IterationTrial
  \/ IterationDecide
  \/ OptimizeApply

SpecInspect == InitInspect /\ [][NextInspect]_vars


(***************************************************************************)
(* Values::totalEnergy and Residual::getWeights as functions of the        *)
(* residual values.                                                        *)
(*                                                                         *)
(* ev = [pc, vals, normSq, settings, energy, weights]: the values of each  *)
(* residual, the squared norm of the host image gradient at each pattern   *)
(* pixel, the loss and weighting settings, and what the two calls gave.    *)
(* The inputs are integers for which the square roots and quotients of     *)
(* the code are exact.                                                     *)
(***************************************************************************)
\* ceres::LossFunction::Evaluate(s, rho) at s = v * v for TrivialLoss and
\* HuberLoss(outlierDiff): <<rho[0], rho[1], rho[2]>>
LossEvaluate(settings, v) ==
  IF settings.lossType = "HUBER" /\ v * v > settings.outlierDiff * settings.outlierDiff
  THEN <<RInt(LossRho(settings, v)),
         Rat(settings.outlierDiff, Abs(v)),
         RNeg(Rat(settings.outlierDiff, 2 * Abs(v) * v * v))>>
  ELSE <<RInt(v * v), RInt(1), RInt(0)>>

\* Residual::Residual, lines 106-108: c / sqrt(c * c + normSq), for inputs
\* whose c * c + normSq is a square
GradWeights(settings, normSq) ==
  [i \in DOMAIN normSq |->
     LET x == settings.c * settings.c + normSq[i]
     IN  Rat(settings.c, CHOOSE k \in 0..x : k * k = x)]

\* Residual::getWeights
getWeights(values, gradWeights, settings) ==
  [i \in DOMAIN values |->
     LET rho == LossEvaluate(settings, values[i])
         w0 == RAdd(rho[2], RMul(RMul(RInt(2), rho[3]), RInt(values[i] * values[i])))
         w == IF RLt(w0, RInt(0)) THEN RMul(settings.lossEps, rho[2]) ELSE w0
     IN  RMul(gradWeights[i], w)]

\* the inputs of the two calls
EnergyInputs ==
  [pc : {"new"},
   vals : UNION {[1..nr -> [1..psz -> -2..2]] : nr \in 0..2, psz \in 1..2},
   normSq : UNION {[1..nr -> [1..psz -> {0, 3}]] : nr \in 0..2, psz \in 1..2},
   settings : [lossType : {"TRIVIAL", "HUBER"}, outlierDiff : {1}, c : {1},
               lossEps : {Rat(1, 10)}],
   energy : {0}, weights : {<<>>}]

InitEnergy ==
  /\ ev \in {e \in EnergyInputs :
               /\ Len(e.vals) = Len(e.normSq)
               /\ \A r \in DOMAIN e.vals : Len(e.vals[r]) = Len(e.normSq[r])}
  /\ keyFrames = <<>> /\ efSettings = <<>> /\ scene = 0
  /\ residuals = <<>> /\ parameters = <<>> /\ pc = "new" /\ maxIterations = 0
  /\ it = 0 /\ lambda = RInt(0) /\ curValues = <<>> /\ newValues = <<>>
  /\ savedState = <<>> /\ parametersUpdated = FALSE /\ hist = <<>>
  /\ BAIdle
  /\ DPIdle
  /\ caches = <<>>
  /\ pre = <<>>
  /\ rp = [pc |-> "idle"] /\ ps = [pc |-> "idle"]
  /\ StepControllerInit
  /\ scSettings.initialLambda = RInt(1)
  /\ scSettings.initialFailMultiplier = RInt(2)
  /\ scSettings.acceptedQuality = RInt(0)

\* Values::totalEnergy() on the values, and Residual::getWeights on the
\* values of every residual
TotalEnergyCall ==
  /\ ev # <<>> /\ ev.pc = "new"
  /\ IF Len(ev.vals) = 0
     THEN \* CHECK_GT(valsAndCache.size(), 0)
          ev' = [ev EXCEPT !.pc = "aborted"]
     ELSE ev' = [ev EXCEPT
                   !.pc = "returned",
                   !.energy = totalEnergy(ev.vals, ev.settings),
                   !.weights = [r \in DOMAIN ev.vals |->
                                  getWeights(ev.vals[r],
                                             GradWeights(ev.settings, ev.normSq[r]),
                                             ev.settings)]]
  /\ UNCHANGED <<varsSC, varsEF, ba, dpv, caches, pre, varsSystem>>

NextEnergy == TotalEnergyCall

SpecEnergy == InitEnergy /\ [][NextEnergy]_vars


(***************************************************************************)
(* Reprojector<PointType>.                                                 *)
(*                                                                         *)
(* rp = [pc, numKeyFrames, cams, points, cam, numCams, nullDeref, result]: *)
(* cams is the size of the bundle of keyFrames[0] and points[<<hostInd,    *)
(* hostCamInd>>] the points of that frame, each with the target cameras    *)
(* its ray is mappable into and on whose image (with borderSize) it falls. *)
(* cam, numCams and numKeyFrames are the members; nullDeref tells that a   *)
(* null cam was dereferenced.                                              *)
(***************************************************************************)
\* Reprojector::reproject for a valid cam, in the order of its four loops
Reproject(r) ==
  ConcatRange(
    [targetCamInd \in CamInds(r.numCams) |->
       ConcatRange(
         [hostInd \in KFInds(r.numKeyFrames) |->
            ConcatRange(
              [hostCamInd \in CamInds(r.numCams) |->
                 LET points == r.points[<<hostInd, hostCamInd>>]
                 IN  ConcatRange(
                       [pointInd \in 0..(Len(points) - 1) |->
                          IF targetCamInd \notin points[pointInd + 1].mappable
                          THEN <<>>
                          ELSE IF targetCamInd \notin points[pointInd + 1].onImage
                          THEN <<>>
                          ELSE <<[hostInd |-> hostInd, hostCamInd |-> hostCamInd,
                                  targetCamInd |-> targetCamInd,
                                  pointInd |-> pointInd]>>],
                       0, Len(points) - 1)],
              0, r.numCams - 1)],
         0, r.numKeyFrames - 1)],
    0, r.numCams - 1)

\* Reprojector::Reprojector: the members in the order of their declaration
ReprojectorCtor ==
  /\ rp.pc = "new"
  /\ IF rp.numKeyFrames <= 0
     THEN \* cam(nullptr), then numCams(cam->bundle.size()) reads through the
          \* null pointer before CHECK_GE is reached: the read faults or
          \* gives some number
          \/ rp' = [rp EXCEPT !.pc = "crashed", !.cam = "null", !.nullDeref = TRUE]
          \/ \E garbage \in 0..1 :
               rp' = [rp EXCEPT !.pc = "constructed", !.cam = "null",
                                !.numCams = garbage, !.nullDeref = TRUE]
     ELSE rp' = [rp EXCEPT !.pc = "constructed", !.cam = "bundle",
                           !.numCams = rp.cams]
  /\ UNCHANGED <<varsSC, varsEF, ba, dpv, caches, varsInspect, ps>>

\* Reprojector::reproject
ReprojectCall ==
  /\ rp.pc = "constructed"
  /\ IF rp.cam = "null"
     THEN IF rp.numCams = 0
          THEN rp' = [rp EXCEPT !.pc = "returned", !.result = <<>>]
          ELSE \* cam->bundle[targetCamInd] of line 29 through the null
               \* pointer: faults, or the loops run over no keyframe
               \/ rp' = [rp EXCEPT !.pc = "crashed"]
               \/ rp' = [rp EXCEPT !.pc = "returned", !.result = <<>>]
     ELSE rp' = [rp EXCEPT !.pc = "returned", !.result = Reproject(rp)]
  /\ UNCHANGED <<varsSC, varsEF, ba, dpv, caches, varsInspect, ps>>

\* up to two keyframes with bundles of one or two cameras and at most one
\* point in the first camera of each keyframe
InitReprojector ==
  /\ rp \in UNION {
       [pc : {"new"}, numKeyFrames : {n}, cams : {cams},
        points : {pts \in [KFInds(n) \X CamInds(cams) ->
                             UNION {[1..len -> [mappable : SUBSET CamInds(cams),
                                                onImage : SUBSET CamInds(cams)]]
                                    : len \in 0..1}] :
                    \A k \in DOMAIN pts : k[2] # 0 => pts[k] = <<>>},
        cam : {"unset"}, numCams : {0}, nullDeref : {FALSE}, result : {<<>>}]
       : n \in 0..2, cams \in 1..2}
  /\ ps = [pc |-> "idle"]
  /\ keyFrames = <<>> /\ efSettings = <<>> /\ scene = 0
  /\ residuals = <<>> /\ parameters = <<>> /\ pc = "new" /\ maxIterations = 0
  /\ it = 0 /\ lambda = RInt(0) /\ curValues = <<>> /\ newValues = <<>>
  /\ savedState = <<>> /\ parametersUpdated = FALSE /\ hist = <<>>
  /\ BAIdle
  /\ DPIdle
  /\ caches = <<>>
  /\ pre = <<>> /\ ev = <<>>
  /\ StepControllerInit
  /\ scSettings.initialLambda = RInt(1)
  /\ scSettings.initialFailMultiplier = RInt(2)
  /\ scSettings.acceptedQuality = RInt(0)

NextReprojector ==
  \/ ReprojectorCtor
  \/ ReprojectCall

SpecReprojector == InitReprojector /\ [][NextReprojector]_vars


(***************************************************************************)
(* PixelSelector.                                                          *)
(*                                                                         *)
(* ps = [pc, settings, lastBlockSize, lastPointsFound, calls,              *)
(*       pointsNeeded, blockSize, layer, found]: the two members, the      *)
(* number of finished select calls, and inside a call its arguments, the   *)
(* layer selectInternal is at and the points found in the layers so far.   *)
(* The image is square with settings.rows rows; the points over the        *)
(* threshold of a layer are none or one per block.                         *)
(***************************************************************************)
\* the settings read by PixelSelector (scaled down), LI and the size of the
\* frame; settingInterestPointsAdaptFactor is taken as 1
SelectorSettings ==
  [initialAdaptiveBlockSize : 1..3, interestPointsUsed : {1, 4},
   adaptFactor : {1}, LI : {3}, rows : {4, 8}]

\* lines 267-270: int(lastBlockSize * sqrt(double(lastPointsFound) /
\* (pointsNeeded * factor))), the largest k with
\* k^2 * pointsNeeded * factor <= lastBlockSize^2 * lastPointsFound
NewBlockSize(lastBlockSize, lastPointsFound, pointsNeeded, factor) ==
  LET Ks == {k \in 0..(lastBlockSize * lastPointsFound) :
               k * k * pointsNeeded * factor
                 <= lastBlockSize * lastBlockSize * lastPointsFound}
  IN  CHOOSE k \in Ks : \A m \in Ks : m <= k

\* selectLayer, lines 276-277: the blocks visited for selBlockSize >= 1
NumBlocks(selBlockSize, rows) ==
  LET perSide == Cardinality({i \in 0..rows :
                                i % selBlockSize = 0 /\ i + selBlockSize < rows})
  IN  perSide * perSide

\* PixelSelector::select up to the loop of line 299
SelectCall ==
  /\ ps.pc = "ready"
  /\ ps.calls < MaxCalls
  /\ \E pointsNeeded \in {1, 4} :
       ps' = [ps EXCEPT
                !.pc = "layers",
                !.pointsNeeded = pointsNeeded,
                !.blockSize = NewBlockSize(ps.lastBlockSize, ps.lastPointsFound,
                                           pointsNeeded, ps.settings.adaptFactor),
                !.layer = 0,
                !.found = <<>>]
  /\ UNCHANGED <<varsSC, varsEF, ba, dpv, caches, varsInspect, rp>>

\* one pass of the loop of lines 299-304: selectLayer with block size
\* (1 << i) * blockSize
SelectLayerCall ==
  /\ ps.pc = "layers"
  /\ ps.layer < ps.settings.LI
  /\ LET selBlockSize == (2 ^ ps.layer) * ps.blockSize
     IN  IF selBlockSize = 0
         THEN \* i + 0 < rows holds and i += 0 leaves i at 0: the loop of
              \* line 276 is never left
              ps' = [ps EXCEPT !.pc = "diverged"]
         ELSE \E n \in {0, NumBlocks(selBlockSize, ps.settings.rows)} :
                ps' = [ps EXCEPT !.layer = ps.layer + 1,
                                 !.found = Append(ps.found, n)]
  /\ UNCHANGED <<varsSC, varsEF, ba, dpv, caches, varsInspect, rp>>

\* the rest of selectInternal, lines 306-330: foundTotal starts from the
\* size of layer 0 and adds the sizes of all layers
SelectReturn ==
  /\ ps.pc = "layers"
  /\ ps.layer = ps.settings.LI
  /\ ps' = [ps EXCEPT
              !.pc = "ready",
              !.lastBlockSize = ps.blockSize,
              !.lastPointsFound = ps.found[1] + SumSeq(ps.found, Len(ps.found)),
              !.calls = ps.calls + 1]
  /\ UNCHANGED <<varsSC, varsEF, ba, dpv, caches, varsInspect, rp>>

\* PixelSelector::PixelSelector
InitSelector ==
  /\ \E st \in SelectorSettings :
       ps = [pc |-> "ready", settings |-> st,
             lastBlockSize |-> st.initialAdaptiveBlockSize,
             lastPointsFound |-> st.interestPointsUsed,
             calls |-> 0, pointsNeeded |-> 0, blockSize |-> 0, layer |-> 0,
             found |-> <<>>]
  /\ rp = [pc |-> "idle"]
  /\ keyFrames = <<>> /\ efSettings = <<>> /\ scene = 0
  /\ residuals = <<>> /\ parameters = <<>> /\ pc = "new" /\ maxIterations = 0
  /\ it = 0 /\ lambda = RInt(0) /\ curValues = <<>> /\ newValues = <<>>
  /\ savedState = <<>> /\ parametersUpdated = FALSE /\ hist = <<>>
  /\ BAIdle
  /\ DPIdle
  /\ caches = <<>>
  /\ pre = <<>> /\ ev = <<>>
  /\ StepControllerInit
  /\ scSettings.initialLambda = RInt(1)
  /\ scSettings.initialFailMultiplier = RInt(2)
  /\ scSettings.acceptedQuality = RInt(0)

NextSelector ==
  \/ SelectCall
  \/ SelectLayerCall
  \/ SelectReturn

SpecSelector == InitSelector /\ [][NextSelector]_vars


(***************************************************************************)
(* Claims about StepController (checked under SpecStep).                   *)
(***************************************************************************)
\* q of the last call as the claims define it: actualDiff / predictedDiff,
\* formed from the energies handed to newStep without any sign flip
LastQ ==
  RDiv(RInt(scLast.oldEnergy - scLast.newEnergy),
       RInt(scLast.oldEnergy - scLast.predictedEnergy))

\* max(minLambdaMultiplier, 1 - (2q-1)^3)
SpecSuccessMultiplier(q) ==
  StdMax(scSettings.minLambdaMultiplier,
         RSub(RInt(1), RPow(RSub(RAdd(q, q), RInt(1)), 3)))

\* C9: when q = actualDiff / predictedDiff exceeds acceptedQuality, newStep
\* reports the step as accepted, multiplies lambda by
\* max(minLambdaMultiplier, 1 - (2q-1)^3) and resets failMultiplier to
\* initialFailMultiplier.
C9_SuccessBranch ==
  (scLast.called /\ RGt(LastQ, scSettings.acceptedQuality)) =>
     /\ scLast.isStepSuccessful
     /\ mLambda = RMul(scLast.oldLambda, SpecSuccessMultiplier(LastQ))
     /\ failMultiplier = scSettings.initialFailMultiplier

\* a call accepted with a factor that is neither the floor nor 1, made after a
\* rejection had raised failMultiplier
C9_Witness ==
  /\ scLast.called
  /\ RGt(LastQ, scSettings.acceptedQuality)
  /\ scLast.oldLambda # RInt(0)
  /\ scLast.oldFailMultiplier # scSettings.initialFailMultiplier
  /\ mLambda # scLast.oldLambda
  /\ mLambda # RMul(scLast.oldLambda, scSettings.minLambdaMultiplier)

\* C10: when q <= acceptedQuality, newStep reports the step as rejected,
\* multiplies lambda by the current failMultiplier and then failMultiplier by
\* failMultiplierMultiplier; after k consecutive rejections from a reset
\* failMultiplier, lambda = lambda0 * initialFailMultiplier^k *
\* failMultiplierMultiplier^(k(k-1)/2).
C10_FailBranch ==
  /\ (scLast.called /\ RLe(LastQ, scSettings.acceptedQuality)) =>
        /\ ~scLast.isStepSuccessful
        /\ mLambda = RMul(scLast.oldLambda, scLast.oldFailMultiplier)
        /\ failMultiplier = RMul(scLast.oldFailMultiplier,
                                 scSettings.failMultiplierMultiplier)
  /\ (scLast.called /\ scLast.rejections >= 1) =>
        LET k == scLast.rejections
        IN  mLambda =
              RMul(scLast.lambda0,
                   RMul(RPow(scSettings.initialFailMultiplier, k),
                        RPow(scSettings.failMultiplierMultiplier,
                             (k * (k - 1)) \div 2)))

\* two consecutive rejections that follow an accepted step
C10_Witness ==
  /\ scLast.called
  /\ RLe(LastQ, scSettings.acceptedQuality)
  /\ scLast.rejections = 2
  /\ scCalls = 3
  /\ mLambda # RInt(0)



\* C11: when oldEnergy - predictedEnergy is negative, newStep negates both
\* the predicted and the observed reduction before it forms q, so q is the
\* ratio of the reductions as they were handed in and the step is reported
\* accepted exactly when that ratio exceeds acceptedQuality.
C11_SignFlipKeepsQuality ==
  (scLast.called /\ scLast.oldEnergy - scLast.predictedEnergy < 0) =>
     LET f == FlippedDiffs(scLast.oldEnergy, scLast.newEnergy,
                           scLast.predictedEnergy)
     IN  /\ f.predictedDiff = -(scLast.oldEnergy - scLast.predictedEnergy)
         /\ f.actualDiff = -(scLast.oldEnergy - scLast.newEnergy)
         /\ scLast.predictionQuality = LastQ
         /\ scLast.isStepSuccessful = RGt(LastQ, scSettings.acceptedQuality)

\* a call with a negative predicted reduction and a negative observed one,
\* which newStep reports as accepted
C11_Witness ==
  /\ scLast.called
  /\ scLast.oldEnergy - scLast.predictedEnergy < 0
  /\ scLast.oldEnergy - scLast.newEnergy < 0
  /\ scLast.isStepSuccessful

\* C26, as stated: whenever newStep reports a step as successful, the new
\* energy is strictly lower than the old one, so a step whose predicted and
\* observed reductions are both negative is not reported as successful.
C26_SuccessMeansLowerEnergy ==
  (scLast.called /\ scLast.isStepSuccessful) =>
     scLast.newEnergy < scLast.oldEnergy

\* C26, amended: acceptedQuality is not negative; a step reported as
\* successful has a strictly lower new energy when the predicted reduction
\* oldEnergy - predictedEnergy is not negative, and a strictly higher new
\* energy when the predicted reduction is negative, because both reductions
\* are negated before q is formed.
C26_SuccessAndEnergy ==
  /\ ~RLt(scSettings.acceptedQuality, RInt(0))
  /\ (scLast.called /\ scLast.isStepSuccessful) =>
        IF scLast.oldEnergy - scLast.predictedEnergy >= 0
        THEN scLast.newEnergy < scLast.oldEnergy
        ELSE scLast.newEnergy > scLast.oldEnergy

\* a second call reported as successful whose predicted reduction is positive
\* and whose new energy is lower
C26_Witness ==
  /\ scLast.called
  /\ scCalls = 2
  /\ scLast.isStepSuccessful
  /\ scLast.oldEnergy - scLast.predictedEnergy > 0
  /\ scLast.newEnergy < scLast.oldEnergy

\* a second call reported as successful although the energy went up
C26_WitnessHigher ==
  /\ scLast.called
  /\ scCalls = 2
  /\ scLast.isStepSuccessful
  /\ scLast.oldEnergy - scLast.predictedEnergy < 0
  /\ scLast.newEnergy > scLast.oldEnergy

\* a call reported as successful with a predicted reduction of zero
C26_WitnessZeroPrediction ==
  /\ scLast.called
  /\ scLast.isStepSuccessful
  /\ scLast.oldEnergy = scLast.predictedEnergy

(***************************************************************************)
(* Claims about EnergyFunction::optimize.                                  *)
(***************************************************************************)
\* optimize() has been entered
Called == hist.kfAtCall # <<>>

\* between two iterations, or after the last one
AtBoundary == Called /\ pc \in {"loop", "done"}

\* the energy of the values the external keyframes hold, as the parameter
\* block would mirror them
EnergyOfKeyFrames ==
  Energy(setPoints(ParametersCtor(keyFrames), parameters.points, keyFrames,
                   efSettings))

\* C1: an accepted trial step has strictly lowered the energy: the energy of
\* the new parameters is below that of the parameters before the step; a step
\* with E_new >= E_old is never accepted.
C1_AcceptedStrictlyLower ==
  (AtBoundary /\ hist.lastStep = "accepted") =>
     /\ Energy(parameters) < Energy(hist.preUpdate)
     /\ hist.lastNew < hist.lastCur

C1_Witness ==
  /\ AtBoundary /\ hist.lastStep = "accepted" /\ it = 2
  /\ Energy(parameters) < Energy(hist.preUpdate)

\* the adjuster's solver has been started on the window
Adjusting == ba.pc \in {"solving", "done"}

\* C3: from the call of optimize() on, keyframe 0's pose and the affine pair
\* of each of its cameras are the ones the call started with, in the parameter
\* block and in the keyframes themselves, whatever steps were accepted or
\* rejected; the same holds for adjust(), in the solver's state and in the
\* keyframes it writes back to.
C3_AnchorKeyFrameUnchanged ==
  /\ Called =>
       /\ parameters.pose[0] = hist.kfAtCall.pose[0]
       /\ parameters.aff[0] = hist.kfAtCall.aff[0]
       /\ keyFrames.pose[0] = hist.kfAtCall.pose[0]
       /\ keyFrames.aff[0] = hist.kfAtCall.aff[0]
  /\ Adjusting =>
       /\ ba.x.pose[0] = ba.kfAtCall.pose[0]
       /\ ba.x.aff[0] = ba.kfAtCall.aff[0]
       /\ keyFrames.pose[0] = ba.kfAtCall.pose[0]
       /\ keyFrames.aff[0] = ba.kfAtCall.aff[0]

\* adjust() has returned after moving keyframe 1's pose and affine pair
C3_Witness ==
  /\ ba.pc = "done" /\ ba.iter = 2
  /\ keyFrames.pose[1] # ba.kfAtCall.pose[1]
  /\ keyFrames.aff[1] # ba.kfAtCall.aff[1]

\* optimize() has returned after moving keyframe 1's pose and affine pair
C3_WitnessOptimize ==
  /\ pc = "done" /\ it = 2
  /\ keyFrames.pose[1] # hist.kfAtCall.pose[1]
  /\ keyFrames.aff[1] # hist.kfAtCall.aff[1]

\* C13: with c and t the translations of keyframes 0 and 1 when adjust() or
\* optimize() starts: if |t - c| is at most minFirstToSecondRadius, keyframe
\* 1's translation stays t throughout the run; otherwise it stays at the
\* distance |t - c| from c.  This holds for the solver's state, for the
\* parameter block and for the keyframes written back.
C13_SecondKeyFrameTranslation ==
  /\ Adjusting =>
       LET c == Trans(ba.kfAtCall.pose[0])
           t == Trans(ba.kfAtCall.pose[1])
       IN  IF DistSq(t, c) <= efSettings.minFirstToSecondRadiusSq
           THEN /\ Trans(ba.x.pose[1]) = t
                /\ Trans(keyFrames.pose[1]) = t
           ELSE /\ DistSq(Trans(ba.x.pose[1]), c) = DistSq(t, c)
                /\ DistSq(Trans(keyFrames.pose[1]), c) = DistSq(t, c)
  /\ Called =>
       LET c == Trans(hist.kfAtCall.pose[0])
           t == Trans(hist.kfAtCall.pose[1])
       IN  IF DistSq(t, c) <= efSettings.minFirstToSecondRadiusSq
           THEN /\ Trans(parameters.pose[1]) = t
                /\ Trans(keyFrames.pose[1]) = t
           ELSE /\ DistSq(Trans(parameters.pose[1]), c) = DistSq(t, c)
                /\ DistSq(Trans(keyFrames.pose[1]), c) = DistSq(t, c)

\* adjust() has returned with keyframe 1's translation moved along the sphere
C13_Witness ==
  /\ ba.pc = "done"
  /\ DistSq(Trans(ba.kfAtCall.pose[1]), Trans(ba.kfAtCall.pose[0]))
       > efSettings.minFirstToSecondRadiusSq
  /\ Trans(keyFrames.pose[1]) # Trans(ba.kfAtCall.pose[1])

\* adjust() has returned from a baseline equal to the threshold, having moved
\* keyframe 1's rotation
C13_WitnessFrozen ==
  /\ ba.pc = "done"
  /\ DistSq(Trans(ba.kfAtCall.pose[1]), Trans(ba.kfAtCall.pose[0]))
       = efSettings.minFirstToSecondRadiusSq
  /\ keyFrames.pose[1][1] # ba.kfAtCall.pose[1][1]

\* C14: with fixedRotationOnSecondKF and fixedMotionOnFirstAdjustent both
\* set, keyframe 1's rotation and translation are the ones adjust() started
\* with, in the solver's state and in the keyframe, whatever the number of
\* keyframes.
C14_BothFlagsFreezeSecondKeyFrame ==
  (/\ Adjusting
   /\ ba.settings.fixedRotationOnSecondKF
   /\ ba.settings.fixedMotionOnFirstAdjustent) =>
     /\ ba.x.pose[1] = ba.kfAtCall.pose[1]
     /\ keyFrames.pose[1] = ba.kfAtCall.pose[1]

\* C2: after a rejected iteration the parameter block equals the snapshot
\* saveState() took right before parameters.update(delta).
C2_RejectedRestoresSnapshot ==
  (AtBoundary /\ hist.lastStep = "rejected") =>
     /\ parameters = savedState
     /\ parameters = hist.preUpdate

\* a rejected step whose trial point differed from the snapshot in a pose,
\* an affine pair and a log-depth
C2_Witness ==
  /\ AtBoundary /\ hist.lastStep = "rejected"
  /\ hist.trial.pose # parameters.pose
  /\ hist.trial.aff # parameters.aff
  /\ hist.trial.logDepth # parameters.logDepth

\* all depths and affine parameters of a parameter block are inside their
\* bounds
InBounds(params) ==
  /\ \A i \in DOMAIN params.logDepth :
        /\ params.logDepth[i] >= efSettings.logMinDepth
        /\ params.logDepth[i] <= efSettings.logMaxDepth
  /\ \A k \in DOMAIN params.aff : \A c \in DOMAIN params.aff[k] :
        /\ params.aff[k][c][1] >= efSettings.minAffineLightA
        /\ params.aff[k][c][1] <= efSettings.maxAffineLightA
        /\ params.aff[k][c][2] >= efSettings.minAffineLightB
        /\ params.aff[k][c][2] <= efSettings.maxAffineLightB

\* C4: at the start and the end of every iteration of optimize() every
\* depth lies in [depth.min, depth.max] and every affine pair in its bounds,
\* after accepted and after rejected steps alike.
C4_BoundsAtIterationBoundaries == AtBoundary => InBounds(parameters)

\* an iteration boundary after a trial step that lowered a and left b at its
\* upper bound (the solver's steps that lower a raise b), with a point whose
\* external depth was below the bound and that is held at the bound
C4_Witness ==
  /\ AtBoundary /\ it >= 1
  /\ \E i \in DOMAIN parameters.logDepth :
        /\ hist.kfAtCall.points[parameters.points[i]].logDepth
              < efSettings.logMinDepth
        /\ hist.preUpdate.logDepth[i] = efSettings.logMinDepth
        /\ hist.trial.logDepth[i] = efSettings.logMinDepth
  /\ hist.preUpdate.aff[1][0][2] = efSettings.maxAffineLightB
  /\ hist.trial.aff[1][0][2] = efSettings.maxAffineLightB
  /\ hist.trial.aff[1][0][1] < hist.preUpdate.aff[1][0][1]

\* C5: during optimize() the external KeyFrame objects keep their pre-call
\* values; only parameters.apply() writes them, once, after the last
\* iteration.
C5_KeyFramesStableUntilApply ==
  Called =>
    /\ pc # "done" => (keyFrames = hist.kfAtCall /\ hist.applyCount = 0)
    /\ pc = "done" => /\ hist.applyCount = 1
                      /\ it = maxIterations
                      /\ keyFrames = apply(parameters, hist.kfAtCall)

\* mid-call, after an accepted step moved the parameter block away from the
\* external keyframes
C5_Witness ==
  /\ Called /\ pc = "loop" /\ it < maxIterations
  /\ hist.lastStep = "accepted"
  /\ parameters.pose # keyFrames.pose
  /\ keyFrames = hist.kfAtCall

\* C6: for inputs that satisfy the construction preconditions, also when no
\* residual was created, optimize(maxIterations) returns normally: it never
\* aborts.
C6_OptimizeNeverAborts == Called => pc # "aborted"

\* the inputs the constructor is said to refuse
BadCtorInput ==
  \/ keyFrames.n < 2
  \/ keyFrames.camNull
  \/ keyFrames.cams = 0
  \/ efSettings.patternSize = 0

\* C7: once the EnergyFunction constructor has run on fewer than two
\* keyframes, on a null or empty camera bundle or with an empty residual
\* pattern, it has failed, no residual was built and no keyframe state was
\* read into the parameter block.
C7_BadInputFailsAtConstruction ==
  (pc # "new" /\ BadCtorInput) =>
     /\ pc = "aborted"
     /\ residuals = <<>>
     /\ ~hist.kfRead

\* optimize() has left its loop for good
OptimizeOver == Called /\ pc \notin {"loop", "trial"}

\* C12: optimize() ends only by applying the current parameters, once, and it
\* takes no further trial step from a current energy that is below every
\* positive tolerance (zero): the loop is left there as it is at the cap.
C12_LeavesLoopAndApplies ==
  /\ OptimizeOver => (pc = "done" /\ hist.applyCount = 1)
  /\ (Called /\ pc = "trial") => Energy(hist.preUpdate) > 0

\* C16: at every iteration boundary of optimize() the step controller has
\* been consulted once per iteration made, and lambda is the step
\* controller's lambda (so it follows the success and fail rules of newStep,
\* with a failMultiplier that grows over consecutive rejections).
C16_LambdaFromStepController ==
  AtBoundary =>
     /\ scCalls = it
     /\ lambda = mLambda

\* the residuals the constructor builds from the keyframes kfs
ResidualsBuiltFrom(kfs) ==
  BuildResiduals(kfs, PointOrder(kfs), 1,
                 [residuals |-> <<>>, optimizedPoints |-> <<>>]).residuals

\* C19: from the call of optimize() on, through every solve, update, accept,
\* reject and the final apply, the residual sequence is the one the
\* constructor built from the keyframes as they were: same length, and at
\* each position the same (hostInd, hostCamInd, targetInd, targetCamInd,
\* pointInd).
C19_ResidualSetFixed ==
  Called => residuals = ResidualsBuiltFrom(hist.kfAtCall)

\* optimize() has returned after an accepted and a rejected iteration, with
\* residuals and with the keyframes changed by apply()
C19_Witness ==
  /\ pc = "done" /\ it = 2
  /\ Len(hist.heads) = 2 /\ hist.heads[1] # hist.heads[2]
  /\ hist.lastStep = "rejected"
  /\ Len(residuals) >= 1
  /\ keyFrames # hist.kfAtCall

\* C21: every residual the constructor created belongs to a pair of an
\* ACTIVE host point and a target <<targetInd, targetCamInd>> of another
\* keyframe for which the point's ray at its depth was mappable and inside
\* the target image with the pattern border; a pair failing either test has
\* no residual, a pair passing both has one, and this stays so through
\* optimize() and the accessors, whatever becomes of the parameters.
C21_ResidualsReproject ==
  pc \in {"constructed", "loop", "trial", "done"} =>
    /\ \A i \in DOMAIN residuals :
         LET r == residuals[i]
             pt == keyFrames.points[r.op]
         IN  /\ pt.host = r.hostInd /\ pt.hostCam = r.hostCamInd
             /\ r.targetInd # r.hostInd
             /\ <<r.targetInd, r.targetCamInd>> \in pt.mappable
             /\ <<r.targetInd, r.targetCamInd>> \in pt.onImage
    /\ \A j \in DOMAIN keyFrames.points :
         \A t \in AllTargets(keyFrames.n, keyFrames.cams) :
           (/\ keyFrames.points[j].state = "ACTIVE"
            /\ t[1] # keyFrames.points[j].host
            /\ t \in keyFrames.points[j].mappable
            /\ t \in keyFrames.points[j].onImage)
           => \E i \in DOMAIN residuals :
                /\ residuals[i].op = j
                /\ residuals[i].targetInd = t[1]
                /\ residuals[i].targetCamInd = t[2]

\* optimize() has returned after an accepted step that changed the point's
\* depth and the poses, and the residual of the point is still there
C21_Witness ==
  /\ pc = "done"
  /\ hist.lastStep = "accepted"
  /\ Len(residuals) = 1
  /\ keyFrames.points[1].logDepth # hist.kfAtCall.points[1].logDepth
  /\ keyFrames.pose # hist.kfAtCall.pose

\* a constructed EnergyFunction without residuals, over a point whose ray is
\* on the image of the other keyframe but not mappable into it
C21_WitnessNotMappable ==
  /\ pc = "constructed"
  /\ residuals = <<>>
  /\ \E t \in keyFrames.points[1].onImage :
       /\ t[1] # keyFrames.points[1].host
       /\ t \notin keyFrames.points[1].mappable

\* C22: every residual has hostInd # targetInd, and no get(hi, hci, ti, tci)
\* made on the hostToTarget, lightHostToTarget or motionDerivatives tables by
\* the constructor or while values and derivatives are evaluated has hi = ti.
C22_NoSelfTarget ==
  /\ \A i \in DOMAIN residuals : residuals[i].hostInd # residuals[i].targetInd
  /\ hist # <<>> => \A k \in hist.ctorReads : k[1] # k[3]
  /\ caches # NullOpt => \A k \in caches.reads : k[1] # k[3]

\* an optimize() that has evaluated values and derivatives twice, over a
\* window whose point is also mappable into a camera of its own keyframe
C22_Witness ==
  /\ caches # NullOpt
  /\ caches.reads # {}
  /\ hist.ctorReads # {}
  /\ pc = "trial"
  /\ it = 1
  /\ parametersUpdated
  /\ \E i \in DOMAIN residuals :
       <<residuals[i].hostInd, residuals[i].hostCamInd>>
         \in keyFrames.points[residuals[i].op].mappable

\* C23: in optimize(), every hostToTarget, lightHostToTarget and
\* motionDerivatives entry read while values, derivatives, Hessian or gradient
\* are computed equals the entry computed from the parameters as they are at
\* the read: no read has returned another entry, and once an iteration has
\* evaluated its trial point the three tables are those of the parameters
\* the iteration solved at and the two new tables those of the trial
\* parameters, so that the values read through the tables are the values of
\* those parameters.
C23_CacheReadsFresh ==
  caches # NullOpt =>
    /\ ~caches.stale
    /\ pc = "trial" =>
         /\ ~StaleEntry(caches.hostToTarget, caches.lightHostToTarget,
                        caches.motionDerivatives, caches.solve.parameters,
                        caches.reads)
         /\ \A k \in caches.reads :
              /\ caches.newHostToTarget[k] =
                   HostToTarget(parameters, k[1], k[2], k[3], k[4])
              /\ caches.newLightHostToTarget[k] =
                   LightHostToTarget(parameters, k[1], k[2], k[3], k[4])
         /\ curValues = createValues(residuals, caches.solve.parameters,
                                     efSettings.patternSize, scene)
         /\ newValues = createValues(residuals, parameters,
                                     efSettings.patternSize, scene)

\* the second iteration has evaluated its trial point after an accepted step
\* that changed, under one key, the pose and the affine parameters the
\* entries of all three tables are computed from
C23_Witness ==
  /\ caches # NullOpt
  /\ pc = "trial"
  /\ it = 1
  /\ hist.lastStep = "accepted"
  /\ LET p0 == ParametersCtor(hist.kfAtCall)
     IN  \E k \in caches.reads :
           /\ caches.hostToTarget[k] # HostToTarget(p0, k[1], k[2], k[3], k[4])
           /\ caches.lightHostToTarget[k] #
                LightHostToTarget(p0, k[1], k[2], k[3], k[4])
           /\ caches.motionDerivatives[k] #
                MotionDerivatives(p0, k[1], k[2], k[3], k[4])

\* the objects optimize() keeps between iterations are those computed from
\* the parameters params and the values vals
ObjectsOf(params, vals) ==
  /\ vals = createValues(residuals, params, efSettings.patternSize, scene)
  /\ ~StaleEntry(caches.hostToTarget, caches.lightHostToTarget,
                 caches.motionDerivatives, params, caches.reads)
  /\ caches.curDerivatives =
       Derivatives(params, residuals, vals, caches.hostToTarget,
                   caches.motionDerivatives, caches.lightHostToTarget)
  /\ caches.hessian = getHessian(vals, caches.curDerivatives)
  /\ caches.gradient = getGradient(vals, caches.curDerivatives)

\* C27: in optimize(), a rejected iteration leaves curValues, the Hessian,
\* the gradient, the derivatives and the three tables as they were at its
\* head, the iteration after it solves with those objects, and at the head
\* of every iteration all of them are the objects of the current parameters.
C27_ObjectsAtIterationHead ==
  caches # NullOpt =>
    /\ (pc = "loop" /\ hist.lastStep = "rejected") =>
          /\ curValues = caches.head.curValues
          /\ caches.curDerivatives = caches.head.curDerivatives
          /\ caches.hessian = caches.head.hessian
          /\ caches.gradient = caches.head.gradient
          /\ caches.hostToTarget = caches.head.hostToTarget
          /\ caches.lightHostToTarget = caches.head.lightHostToTarget
          /\ caches.motionDerivatives = caches.head.motionDerivatives
    /\ (pc = "trial" /\ hist.lastStep = "rejected") =>
          /\ caches.solve.hessian = caches.prevSolve.hessian
          /\ caches.solve.gradient = caches.prevSolve.gradient
          /\ caches.solve.curValues = caches.prevSolve.curValues
    /\ (pc = "loop" /\ it < maxIterations /\ residuals # <<>>) =>
          ObjectsOf(parameters, curValues)

\* C27, the part that holds at the solve of line 187: the Hessian and the
\* gradient handed to it, and the tables and derivatives behind them, are
\* those of the parameters at that line, and after a rejected iteration they
\* are the objects the iteration before solved with.
C27_ObjectsAtSolve ==
  (caches # NullOpt /\ pc = "trial") =>
    /\ ObjectsOf(caches.solve.parameters, caches.solve.curValues)
    /\ caches.solve.hessian = caches.hessian
    /\ caches.solve.gradient = caches.gradient
    /\ hist.lastStep = "rejected" =>
         /\ caches.solve.hessian = caches.prevSolve.hessian
         /\ caches.solve.gradient = caches.prevSolve.gradient
         /\ caches.solve.parameters = caches.prevSolve.parameters

\* C27, the part that holds of lines 203-206: the rejection itself changes
\* none of the objects the iteration solved with.
C27_RejectionKeepsObjects ==
  (caches # NullOpt /\ pc = "loop" /\ hist.lastStep = "rejected") =>
    /\ ObjectsOf(parameters, curValues)
    /\ caches.hessian = caches.solve.hessian
    /\ caches.gradient = caches.solve.gradient
    /\ curValues = caches.solve.curValues

\* the head of the iteration after an accepted one: the values and the two
\* moved tables are those of the accepted parameters, the derivatives are not
C27_WitnessStaleAtHead ==
  /\ caches # NullOpt
  /\ pc = "loop"
  /\ hist.lastStep = "accepted"
  /\ it < maxIterations
  /\ curValues = createValues(residuals, parameters, efSettings.patternSize, scene)
  /\ caches.curDerivatives #
       Derivatives(parameters, residuals, curValues, caches.hostToTarget,
                   MotionGetAll(PrecomputedMotionDerivatives(parameters),
                                parameters, caches.reads),
                   caches.lightHostToTarget)

\* a rejected iteration that followed an accepted one and rebuilt the
\* derivatives at its head
C27_WitnessRejectedAfterAccepted ==
  /\ caches # NullOpt
  /\ pc = "loop"
  /\ hist.lastStep = "rejected"
  /\ caches.curDerivatives # caches.head.curDerivatives

\* C24: what getResidualValues, getHessian() and getGradient() return is
\* always what the parameters of the moment of the call give: a call after
\* optimize() changed the parameters does not return Values or Derivatives
\* that were cached before.
C24_AccessorsReturnCurrent ==
  (pre # <<>> /\ pre.accessor # "none") => pre.ret = pre.current

\* C24 (what the code keeps): a cached Values or Derivatives is the one of
\* the current parameters as long as optimize() has not been called
C24_CurrentBeforeOptimize ==
  (pre # <<>> /\ pc = "constructed") =>
    /\ pre.values # NullOpt => pre.values = CurrentValues
    /\ pre.derivatives # NullOpt => pre.derivatives = CurrentDerivatives

\* after optimize() accepted a step, getHessian() returned the Hessian of
\* the Values cached before the call of optimize()
C24_WitnessStaleHessian ==
  /\ pre # <<>>
  /\ pc = "done"
  /\ hist.lastStep = "accepted"
  /\ pre.accessor = "getHessian"
  /\ pre.ret # pre.current
  /\ pre.ret.values # CurrentValues

\* after optimize() and clearPrecomputations(), getResidualValues returned
\* the values of the current parameters
C24_WitnessClearedIsCurrent ==
  /\ pre # <<>>
  /\ pc = "done"
  /\ keyFrames.pose # hist.kfAtCall.pose
  /\ pre.accessor = "getResidualValues"
  /\ pre.ret = pre.current
  /\ pre.values = CurrentValues

\* the ACTIVE points of the window that pass both tests of lines 52-56 for
\* a target camera of another keyframe
PointsWithResiduals ==
  {j \in DOMAIN keyFrames.points :
     /\ keyFrames.points[j].state = "ACTIVE"
     /\ \E t \in keyFrames.points[j].mappable \cap keyFrames.points[j].onImage :
          t[1] # keyFrames.points[j].host}

\* C28: after construction numPoints() is the number of ACTIVE optimized
\* points with at least one residual, every residual's pointInd is in
\* [0, numPoints()), the residuals of one point have the same pointInd and
\* residuals of different points have different ones.
C28_PointIndices ==
  pc = "constructed" =>
    /\ numPoints(parameters) = Cardinality(PointsWithResiduals)
    /\ {residuals[i].op : i \in DOMAIN residuals} = PointsWithResiduals
    /\ \A i \in DOMAIN residuals :
         residuals[i].pointInd >= 0 /\ residuals[i].pointInd < numPoints(parameters)
    /\ \A i, k \in DOMAIN residuals :
         (residuals[i].op = residuals[k].op)
           <=> (residuals[i].pointInd = residuals[k].pointInd)

\* a constructed EnergyFunction over three keyframes with two points that
\* have two residuals each, visited after a point that is not ACTIVE
C28_Witness ==
  /\ pc = "constructed"
  /\ keyFrames.n = 3
  /\ numPoints(parameters) = 2
  /\ Len(residuals) = 4
  /\ keyFrames.points[1].state = "OUTLIER"
  /\ residuals[1].op = 2 /\ residuals[1].pointInd = 0
  /\ residuals[4].op = 3 /\ residuals[4].pointInd = 1

\* a constructed EnergyFunction whose only point with residuals is visited
\* after an ACTIVE point that is on no target image
C28_WitnessNoResidual ==
  /\ pc = "constructed"
  /\ Len(keyFrames.points) = 2
  /\ keyFrames.points[1].state = "ACTIVE" /\ keyFrames.points[1].onImage = {}
  /\ numPoints(parameters) = 1
  /\ residuals # <<>>
  /\ \A i \in DOMAIN residuals : residuals[i].op = 2 /\ residuals[i].pointInd = 0

RECURSIVE RSumSeq(_, _)
RSumSeq(f, n) == IF n = 0 THEN RInt(0) ELSE RAdd(f[n], RSumSeq(f, n - 1))

\* the sum over the residuals and the pattern of w_i * rho(r_i^2), with the
\* weights w_i of getWeights
WeightedEnergy ==
  RSumSeq([r \in DOMAIN ev.vals |->
             RSumSeq([i \in DOMAIN ev.vals[r] |->
                        RMul(ev.weights[r][i],
                             RInt(LossRho(ev.settings, ev.vals[r][i])))],
                     Len(ev.vals[r]))],
          Len(ev.vals))

\* C25: Values::totalEnergy() is the sum over all residuals and all pattern
\* indices i of w_i * rho(r_i^2), w_i being the weight of the sample.
C25_TotalEnergyIsWeightedSum ==
  (ev # <<>> /\ ev.pc = "returned") => RInt(ev.energy) = WeightedEnergy

\* C25 (what the code computes): totalEnergy() is the sum of rho(r_i^2)
\* without weights; it is the weighted sum when every weight is one
C25_TotalEnergyIsPlainSum ==
  (ev # <<>> /\ ev.pc = "returned") =>
    /\ ev.energy =
         SumSeq([r \in DOMAIN ev.vals |->
                   SumSeq([i \in DOMAIN ev.vals[r] |->
                             (LossEvaluate(ev.settings, ev.vals[r][i])[1])[1]],
                          Len(ev.vals[r]))],
                Len(ev.vals))
    /\ (\A r \in DOMAIN ev.weights : \A i \in DOMAIN ev.weights[r] :
          ev.weights[r][i] = RInt(1))
       => RInt(ev.energy) = WeightedEnergy

\* totalEnergy() of one residual with the trivial loss, value 2 and weight
\* 1/2 at a pixel of gradient norm sqrt(3): 4 against the weighted 2
C25_WitnessGradientWeight ==
  /\ ev # <<>> /\ ev.pc = "returned"
  /\ ev.settings.lossType = "TRIVIAL"
  /\ ev.vals = <<(<<2>>)>>
  /\ ev.weights = <<(<<Rat(1, 2)>>)>>
  /\ ev.energy = 4
  /\ WeightedEnergy = RInt(2)

\* totalEnergy() counts a Huber outlier, whose weight is zero
C25_WitnessOutlier ==
  /\ ev # <<>> /\ ev.pc = "returned"
  /\ ev.settings.lossType = "HUBER"
  /\ ev.vals = <<(<<-2, 1>>)>>
  /\ ev.normSq = <<(<<0, 0>>)>>
  /\ ev.weights = <<(<<RInt(0), RInt(1)>>)>>
  /\ ev.energy = 4
  /\ WeightedEnergy = RInt(1)

\* C29: a Reprojector with numKeyFrames = 0 is constructed without a read
\* through a null camera bundle and its reproject() returns the empty list;
\* with numKeyFrames > 0 every reprojection returned is mappable and inside
\* the image of the target camera with the border.
C29_ReprojectorSafe ==
  /\ rp.pc \in {"constructed", "crashed", "returned"} =>
       /\ ~rp.nullDeref
       /\ rp.pc # "crashed"
       /\ (rp.pc = "returned" /\ rp.numKeyFrames = 0) => rp.result = <<>>
       /\ (rp.pc = "returned" /\ rp.numKeyFrames > 0) =>
            \A i \in DOMAIN rp.result :
              LET x == rp.result[i]
                  p == rp.points[<<x.hostInd, x.hostCamInd>>][x.pointInd + 1]
              IN  x.targetCamInd \in p.mappable /\ x.targetCamInd \in p.onImage

\* C29 (what the code keeps): with numKeyFrames > 0 nothing is read through
\* a null pointer and reproject() returns exactly the points that are
\* mappable and on the image of the target camera
C29_PositiveReprojections ==
  (rp.pc \in {"constructed", "crashed", "returned"} /\ rp.numKeyFrames > 0) =>
    /\ ~rp.nullDeref /\ rp.pc # "crashed" /\ rp.cam = "bundle"
    /\ rp.pc = "returned" =>
         /\ \A i \in DOMAIN rp.result :
              LET x == rp.result[i]
                  p == rp.points[<<x.hostInd, x.hostCamInd>>][x.pointInd + 1]
              IN  x.targetCamInd \in p.mappable /\ x.targetCamInd \in p.onImage
         /\ \A k \in DOMAIN rp.points : \A j \in DOMAIN rp.points[k] :
              \A tc \in rp.points[k][j].mappable \cap rp.points[k][j].onImage :
                \E i \in DOMAIN rp.result :
                  rp.result[i] = [hostInd |-> k[1], hostCamInd |-> k[2],
                                  targetCamInd |-> tc, pointInd |-> j - 1]

\* the constructor with numKeyFrames = 0 has read through the null cam
C29_WitnessNullDeref ==
  /\ rp.pc \in {"constructed", "crashed"}
  /\ rp.numKeyFrames = 0
  /\ rp.cam = "null"
  /\ rp.nullDeref

\* reproject() over two keyframes and two cameras has returned two
\* reprojections and left out a point that is mappable but off the image
C29_WitnessReprojections ==
  /\ rp.pc = "returned"
  /\ rp.numKeyFrames = 2 /\ rp.numCams = 2
  /\ Len(rp.result) = 2
  /\ \E k \in DOMAIN rp.points : \E j \in DOMAIN rp.points[k] :
       rp.points[k][j].mappable \ rp.points[k][j].onImage # {}

\* C30: every call of select terminates: the block size handed to
\* selectLayer is at least 1, also after a call that found no points, and
\* the block loops advance.
C30_SelectTerminates ==
  /\ ps.pc # "diverged"
  /\ ps.pc = "layers" => ps.blockSize >= 1

\* C30 (what the code keeps): a call whose adapted block size is at least 1
\* passes every layer and returns; the loop is stuck only with block size 0,
\* and a block size of 0 is kept by every later call
C30_StuckOnlyAtZero ==
  /\ ps.pc = "diverged" => ps.blockSize = 0 /\ ps.layer = 0
  /\ (ps.pc = "layers" /\ ps.lastBlockSize = 0) => ps.blockSize = 0
  /\ (ps.pc = "layers" /\ ps.pointsNeeded > 0 /\ ps.blockSize = 0) =>
       \/ ps.lastBlockSize = 0
       \/ ps.lastPointsFound = 0
       \/ ps.lastBlockSize * ps.lastBlockSize * ps.lastPointsFound
            < ps.pointsNeeded * ps.settings.adaptFactor

\* select after a call that returned without any point found: the loop of
\* selectLayer does not advance
C30_WitnessNoPointsFound ==
  /\ ps.pc = "diverged"
  /\ ps.calls = 1
  /\ ps.lastPointsFound = 0
  /\ ps.lastBlockSize >= 1

\* the first select of a PixelSelector with block size 1 and one point
\* found before, asked for four points: int(1 * sqrt(1 / 4)) = 0
C30_WitnessTruncated ==
  /\ ps.pc = "diverged"
  /\ ps.calls = 0
  /\ ps.lastBlockSize = 1 /\ ps.lastPointsFound = 1 /\ ps.pointsNeeded = 4

\* two select calls in a row have returned
C30_WitnessReturned ==
  /\ ps.pc = "ready"
  /\ ps.calls = 2
  /\ ps.lastBlockSize >= 1 /\ ps.lastPointsFound >= 1

\* C8: the energy of the current parameters at the head of each iteration is
\* non-increasing over the call, and the parameters apply() writes back have
\* the lowest energy of the initial point and all trial points evaluated.
C8_MonotoneAndBest ==
  /\ \A i \in DOMAIN hist.heads : \A j \in DOMAIN hist.heads :
        i < j => hist.heads[j] <= hist.heads[i]
  /\ (Called /\ pc = "done" /\ residuals # <<>>) =>
        /\ EnergyOfKeyFrames = hist.minSeen
        /\ \A i \in DOMAIN hist.heads : EnergyOfKeyFrames <= hist.heads[i]

\* a finished call with an accepted step after a rejected one
C8_Witness ==
  /\ Called /\ pc = "done" /\ residuals # <<>>
  /\ Len(hist.heads) = 2
  /\ hist.heads[2] = hist.heads[1]
  /\ hist.lastStep = "accepted"
  /\ EnergyOfKeyFrames < hist.heads[1]


(***************************************************************************)
(* Claims about DeltaParameterVector (checked under SpecDelta).            *)
(***************************************************************************)
\* C15: after constraintDepths(maxAbsDeltaD) every point delta d that had
\* |d| > maxAbsDeltaD is zero, every one that had |d| <= maxAbsDeltaD is as
\* it was, the frame part is as it was, and a second call with the same
\* argument changes nothing.
C15_ConstraintDepths ==
  dpv.calls >= 1 =>
    /\ DOMAIN dpv.point = DOMAIN dpv.before.point
    /\ \A i \in DOMAIN dpv.point :
         /\ RGt(RAbs(dpv.before.point[i]), dpv.maxAbsDeltaD)
              => dpv.point[i] = RInt(0)
         /\ RLe(RAbs(dpv.before.point[i]), dpv.maxAbsDeltaD)
              => dpv.point[i] = dpv.before.point[i]
    /\ dpv.frame = dpv.before.frame
    /\ (dpv.calls >= 2 /\ dpv.maxAbsDeltaD = dpv.beforeMax)
         => dpv.point = dpv.before.point

\* a call with a finite limit that zeroed one delta and kept another that
\* lies exactly on the limit
C15_Witness ==
  /\ dpv.calls = 1
  /\ IsFinite(dpv.maxAbsDeltaD)
  /\ \E i, j \in DOMAIN dpv.point :
       /\ RGt(RAbs(dpv.before.point[i]), dpv.maxAbsDeltaD)
       /\ dpv.point[i] = RInt(0)
       /\ RAbs(dpv.point[j]) = dpv.maxAbsDeltaD
       /\ dpv.point[j] # RInt(0)

\* a second call with the same finite limit on a vector that holds a delta
\* on the limit
C15_WitnessTwice ==
  /\ dpv.calls = 2
  /\ dpv.maxAbsDeltaD = dpv.beforeMax
  /\ IsFinite(dpv.maxAbsDeltaD)
  /\ \E j \in DOMAIN dpv.point :
       /\ RAbs(dpv.point[j]) = dpv.maxAbsDeltaD
       /\ dpv.point[j] # RInt(0)


(***************************************************************************)
(* Claims about lambda (checked under SpecLambda).                         *)
(***************************************************************************)
\* the last iteration of optimize() was decided as accepted, resp. rejected
LastAccepted == pc \in {"loop", "done"} /\ hist.lastStep = "accepted"
LastRejected == pc \in {"loop", "done"} /\ hist.lastStep = "rejected"

\* C17 as stated: whenever a trial step is accepted, in optimize() or by
\* newStep, lambda after the update is smaller than lambda before it.
C17_AcceptanceReducesLambda ==
  /\ LastAccepted => RLt(lambda, hist.lastLambda)
  /\ (scLast.called /\ scLast.isStepSuccessful)
       => RLt(mLambda, scLast.oldLambda)

\* C17 as amended: on acceptance optimize() multiplies lambda by
\* successMultiplier, which reduces a positive lambda; newStep multiplies it
\* by max(minLambdaMultiplier, 1 - (2q-1)^3), so that a positive lambda is
\* reduced when q > 1/2, unchanged when q = 1/2 and increased when
\* acceptedQuality < q < 1/2; a lambda of 0 stays 0.
C17_LambdaOnAcceptance ==
  /\ LastAccepted =>
       /\ lambda = RMul(hist.lastLambda, efSettings.successMultiplier)
       /\ RGt(hist.lastLambda, RInt(0)) => RLt(lambda, hist.lastLambda)
       /\ hist.lastLambda = RInt(0) => lambda = RInt(0)
  /\ (scLast.called /\ scLast.isStepSuccessful) =>
       /\ mLambda = RMul(scLast.oldLambda, SpecSuccessMultiplier(LastQ))
       /\ RGt(scLast.oldLambda, RInt(0)) =>
            /\ RGt(LastQ, Rat(1, 2)) => RLt(mLambda, scLast.oldLambda)
            /\ LastQ = Rat(1, 2) => mLambda = scLast.oldLambda
            /\ RLt(LastQ, Rat(1, 2)) => RGt(mLambda, scLast.oldLambda)
       /\ scLast.oldLambda = RInt(0) => mLambda = RInt(0)

\* newStep has accepted a step of quality below 1/2 and raised a positive
\* lambda
C17_Witness ==
  /\ scLast.called /\ scLast.isStepSuccessful
  /\ RLt(LastQ, Rat(1, 2))
  /\ RGt(scLast.oldLambda, RInt(0))
  /\ RGt(mLambda, scLast.oldLambda)

\* optimize() has accepted a step and lowered a positive lambda
C17_WitnessOptimize ==
  /\ LastAccepted
  /\ RGt(hist.lastLambda, RInt(0))
  /\ RLt(lambda, hist.lastLambda)


\* C18: every rejected step, in optimize() or by newStep, leaves lambda
\* strictly larger than it was, whatever the initial lambda.
C18_RejectionIncreasesLambda ==
  /\ LastRejected => RGt(lambda, hist.lastLambda)
  /\ (scLast.called /\ ~scLast.isStepSuccessful)
       => RGt(mLambda, scLast.oldLambda)


(***************************************************************************)
(* Claims about the constructor's residuals (checked under SpecBuild).     *)
(***************************************************************************)
\* C20: once the EnergyFunction is constructed, every residual belongs to an
\* optimized point whose state is ACTIVE, and so does every entry of the
\* parameter block's point list: OUTLIER and OOB points have neither.
C20_OnlyActivePoints ==
  pc = "constructed" =>
     /\ \A i \in DOMAIN residuals :
          keyFrames.points[residuals[i].op].state = "ACTIVE"
     /\ \A i \in DOMAIN parameters.points :
          keyFrames.points[parameters.points[i]].state = "ACTIVE"

\* a constructed EnergyFunction with residuals for an ACTIVE point, built
\* from a window that also holds an OUTLIER or OOB point seen in another
\* keyframe
C20_Witness ==
  /\ pc = "constructed"
  /\ Len(residuals) >= 1
  /\ \E j \in DOMAIN keyFrames.points :
       /\ keyFrames.points[j].state # "ACTIVE"
       /\ \E t \in keyFrames.points[j].onImage : t[1] # keyFrames.points[j].host

=============================================================================
